---- MODULE Spec2Model ----
(***************************************************************************)
(* League standings engine (utils/standingsCalculator.js) over the CRUD    *)
(* data store (utils/authHelpers.js crudRequest).                          *)
(*                                                                         *)
(* calculateLeagueStandings and updateStandingsForFixture are async        *)
(* functions: each action below is the code that runs from the resolution  *)
(* of one awaited crudRequest up to the issue of the next one.             *)
(***************************************************************************)
EXTENDS Integers, Sequences, FiniteSets, TLC

VARIABLES ui, configFetch, CURRENT_SEASON, tblfixtures, tblresults, tblleagues,
          tblstandings, nextId, calls, ncalls, lastRun

vars == <<ui, configFetch, CURRENT_SEASON, tblfixtures, tblresults, tblleagues,
          tblstandings, nextId, calls, ncalls, lastRun>>

\* ------------------------------------------------------------------ bounds
\* Number of fixture rows in tblfixtures.
MaxFixtures == 2

\* Number of engine calls started in one behaviour.
MaxCalls == 3

\* Number of admin operations (form submissions, bulk recalculations) started
\* in one behaviour.
MaxOps == 2

\* ------------------------------------------------------- program constants
Scheduled == 0
Underway == 1
Completed == 2
Cancelled == 3
Abandoned == 4

WinPoints == 4
DrawPoints == 2
LosingBonusMargin == 7
TryBonusTries == 4

FallbackSeason == "2025-26"

\* ------------------------------------------------------------ data domains
FixtureIDs == 1..MaxFixtures
TeamIDs == 1..(MaxFixtures + 1)
LeagueIDs == {1, 2}
Seasons == {"2025-26", "2024-25"}
Statuses == {Scheduled, Underway, Completed, Cancelled, Abandoned}
Procs == {1, 2}

\* A stored homeScorers/awayScorers value (json NULL column): SQL NULL, a JSON
\* text that decodes to a list of scorer objects (kept as their scoreType),
\* a text that is not JSON, or JSON that decodes to a non-list.
ScorerList(types) == [kind |-> "list", types |-> types]
NullScorers == [kind |-> "null", types |-> <<>>]
BadJson == [kind |-> "badjson", types |-> <<>>]
NotList == [kind |-> "notlist", types |-> <<>>]
FourTries == ScorerList(<<"try", "try", "try", "try">>)
ThreeTries == ScorerList(<<"try", "conversion", "try", "try">>)

NoRow == [id |-> 0]

\* ------------------------------------------------- aggregation (pure part)
\* Mutant: the filter forgets the status.
leagueFixturesOf_AnyStatus(allFixtures, leagueID) ==
    SelectSeq(allFixtures, LAMBDA f : f.leagueID = leagueID)

\* const leagueFixtures = allFixtures.filter(f => f.leagueID === leagueID && f.status === 2)
leagueFixturesOf(allFixtures, leagueID) ==
    SelectSeq(allFixtures, LAMBDA f : f.leagueID = leagueID /\ f.status = Completed)

\* allResults.forEach(result => { resultsMap[result.fixtureID] = result }): the
\* last row of a fixture wins.
resultsMapOf(allResults) ==
    [fid \in {allResults[i].fixtureID : i \in DOMAIN allResults} |->
        LET last == CHOOSE i \in DOMAIN allResults :
                        /\ allResults[i].fixtureID = fid
                        /\ \A j \in DOMAIN allResults :
                               allResults[j].fixtureID = fid => j <= i
        IN  allResults[last]]

\* leagueFixtures.forEach(fixture => { teamIDs.add(homeTeam); teamIDs.add(awayTeam) })
teamIDsOf(leagueFixtures) ==
    {leagueFixtures[i].homeTeam : i \in DOMAIN leagueFixtures}
        \cup {leagueFixtures[i].awayTeam : i \in DOMAIN leagueFixtures}

\* standings[teamID] = { teamID, played: 0, ... }
ZeroStanding(teamID) ==
    [teamID |-> teamID, played |-> 0, won |-> 0, drawn |-> 0, lost |-> 0,
     pointsFor |-> 0, pointsAgainst |-> 0, pointsDifference |-> 0,
     bonusPoints |-> 0, points |-> 0]

\* parseInt(result.homeScore) || 0 on an int NOT NULL column.
ParseScore(x) == IF x = 0 THEN 0 ELSE x

\* typeof x === 'string' ? JSON.parse(x) : x, for a truthy x; [] for a falsy one.
\* ok = FALSE stands for the SyntaxError JSON.parse throws.
DecodeScorers(field) ==
    CASE field.kind = "null"    -> [ok |-> TRUE, isList |-> TRUE, types |-> <<>>]
      [] field.kind = "list"    -> [ok |-> TRUE, isList |-> TRUE, types |-> field.types]
      [] field.kind = "notlist" -> [ok |-> TRUE, isList |-> FALSE, types |-> <<>>]
      [] OTHER                  -> [ok |-> FALSE, isList |-> FALSE, types |-> <<>>]

\* scorers.filter(s => s.scoreType === 'try').length
TryCount(types) == Len(SelectSeq(types, LAMBDA t : t = "try"))

\* Mutant: the home side's losing bonus needs a margin below 7.
MatchOutcome_HomeStrictMargin(home, away, homeScore, awayScore) ==
    IF homeScore > awayScore
    THEN LET h == [home EXCEPT !.won = @ + 1, !.points = @ + WinPoints]
             a == [away EXCEPT !.lost = @ + 1]
         IN  IF awayScore + LosingBonusMargin >= homeScore
             THEN [home |-> h,
                   away |-> [a EXCEPT !.bonusPoints = @ + 1, !.points = @ + 1]]
             ELSE [home |-> h, away |-> a]
    ELSE IF awayScore > homeScore
    THEN LET a == [away EXCEPT !.won = @ + 1, !.points = @ + WinPoints]
             h == [home EXCEPT !.lost = @ + 1]
         IN  IF homeScore + LosingBonusMargin > awayScore
             THEN [home |-> [h EXCEPT !.bonusPoints = @ + 1, !.points = @ + 1],
                   away |-> a]
             ELSE [home |-> h, away |-> a]
    ELSE [home |-> [home EXCEPT !.drawn = @ + 1, !.points = @ + DrawPoints],
          away |-> [away EXCEPT !.drawn = @ + 1, !.points = @ + DrawPoints]]

\* Mutant: a draw is scored as a narrow defeat for both sides.
MatchOutcome_DrawAsLoss(home, away, homeScore, awayScore) ==
    IF homeScore > awayScore
    THEN LET h == [home EXCEPT !.won = @ + 1, !.points = @ + WinPoints]
             a == [away EXCEPT !.lost = @ + 1]
         IN  IF awayScore + LosingBonusMargin >= homeScore
             THEN [home |-> h,
                   away |-> [a EXCEPT !.bonusPoints = @ + 1, !.points = @ + 1]]
             ELSE [home |-> h, away |-> a]
    ELSE IF awayScore > homeScore
    THEN LET a == [away EXCEPT !.won = @ + 1, !.points = @ + WinPoints]
             h == [home EXCEPT !.lost = @ + 1]
         IN  IF homeScore + LosingBonusMargin >= awayScore
             THEN [home |-> [h EXCEPT !.bonusPoints = @ + 1, !.points = @ + 1],
                   away |-> a]
             ELSE [home |-> h, away |-> a]
    ELSE [home |-> [home EXCEPT !.drawn = @ + 1, !.bonusPoints = @ + 1,
                                !.points = @ + 1],
          away |-> [away EXCEPT !.drawn = @ + 1, !.bonusPoints = @ + 1,
                                !.points = @ + 1]]

\* Mutant: an away win does not count as a defeat of the home side.
MatchOutcome_AwayWinNoLoss(home, away, homeScore, awayScore) ==
    IF homeScore > awayScore
    THEN LET h == [home EXCEPT !.won = @ + 1, !.points = @ + WinPoints]
             a == [away EXCEPT !.lost = @ + 1]
         IN  IF awayScore + LosingBonusMargin >= homeScore
             THEN [home |-> h,
                   away |-> [a EXCEPT !.bonusPoints = @ + 1, !.points = @ + 1]]
             ELSE [home |-> h, away |-> a]
    ELSE IF awayScore > homeScore
    THEN LET a == [away EXCEPT !.won = @ + 1, !.points = @ + WinPoints]
             h == home
         IN  IF homeScore + LosingBonusMargin >= awayScore
             THEN [home |-> [h EXCEPT !.bonusPoints = @ + 1, !.points = @ + 1],
                   away |-> a]
             ELSE [home |-> h, away |-> a]
    ELSE [home |-> [home EXCEPT !.drawn = @ + 1, !.points = @ + DrawPoints],
          away |-> [away EXCEPT !.drawn = @ + 1, !.points = @ + DrawPoints]]

\* if (homeScore > awayScore) {...} else if (awayScore > homeScore) {...} else {...}
MatchOutcome(home, away, homeScore, awayScore) ==
    IF homeScore > awayScore
    THEN LET h == [home EXCEPT !.won = @ + 1, !.points = @ + WinPoints]
             a == [away EXCEPT !.lost = @ + 1]
         IN  IF awayScore + LosingBonusMargin >= homeScore
             THEN [home |-> h,
                   away |-> [a EXCEPT !.bonusPoints = @ + 1, !.points = @ + 1]]
             ELSE [home |-> h, away |-> a]
    ELSE IF awayScore > homeScore
    THEN LET a == [away EXCEPT !.won = @ + 1, !.points = @ + WinPoints]
             h == [home EXCEPT !.lost = @ + 1]
         IN  IF homeScore + LosingBonusMargin >= awayScore
             THEN [home |-> [h EXCEPT !.bonusPoints = @ + 1, !.points = @ + 1],
                   away |-> a]
             ELSE [home |-> h, away |-> a]
    ELSE [home |-> [home EXCEPT !.drawn = @ + 1, !.points = @ + DrawPoints],
          away |-> [away EXCEPT !.drawn = @ + 1, !.points = @ + DrawPoints]]

\* Mutant: the try bonus is counted in bonusPoints but not added to points.
TryBonus_NoPoint(t, tries) ==
    IF tries >= TryBonusTries
    THEN [t EXCEPT !.bonusPoints = @ + 1]
    ELSE t

\* if (tries >= 4) { team.bonusPoints++; team.points++ }
TryBonus(t, tries) ==
    IF tries >= TryBonusTries
    THEN [t EXCEPT !.bonusPoints = @ + 1, !.points = @ + 1]
    ELSE t

\* The try { ... } catch around the scorers: a throw from either JSON.parse or
\* from .filter on a non-list happens before any bonus is awarded.
TryBonusBlock(home, away, result) ==
    LET hs == DecodeScorers(result.homeScorers)
        as == DecodeScorers(result.awayScorers)
    IN  IF hs.ok /\ as.ok /\ hs.isList /\ as.isList
        THEN [home |-> TryBonus(home, TryCount(hs.types)),
              away |-> TryBonus(away, TryCount(as.types))]
        ELSE [home |-> home, away |-> away]

\* team.pointsDifference = team.pointsFor - team.pointsAgainst
WithDifference(t) == [t EXCEPT !.pointsDifference = t.pointsFor - t.pointsAgainst]

\* Mutant: the difference is taken before this fixture's scores are added.
ProcessFixture_DifferenceBeforeScores(standings, fixture, resultsMap) ==
    IF fixture.id \notin DOMAIN resultsMap
    THEN standings
    ELSE LET result == resultsMap[fixture.id]
             homeScore == ParseScore(result.homeScore)
             awayScore == ParseScore(result.awayScore)
             hd == WithDifference(standings[fixture.homeTeam])
             ad == WithDifference(standings[fixture.awayTeam])
             h0 == [hd EXCEPT !.played = @ + 1,
                              !.pointsFor = @ + homeScore,
                              !.pointsAgainst = @ + awayScore]
             a0 == [ad EXCEPT !.played = @ + 1,
                              !.pointsFor = @ + awayScore,
                              !.pointsAgainst = @ + homeScore]
             m  == MatchOutcome(h0, a0, homeScore, awayScore)
             b  == TryBonusBlock(m.home, m.away, result)
         IN  [standings EXCEPT ![fixture.homeTeam] = b.home,
                               ![fixture.awayTeam] = b.away]

\* Mutant: the scorers are decoded before anything is counted, and a fixture
\* whose scorers cannot be decoded is skipped.
ProcessFixture_SkipsMalformed(standings, fixture, resultsMap) ==
    IF fixture.id \notin DOMAIN resultsMap
    THEN standings
    ELSE LET result == resultsMap[fixture.id]
             hs == DecodeScorers(result.homeScorers)
             as == DecodeScorers(result.awayScorers)
             homeScore == ParseScore(result.homeScore)
             awayScore == ParseScore(result.awayScore)
             h0 == [standings[fixture.homeTeam] EXCEPT
                        !.played = @ + 1,
                        !.pointsFor = @ + homeScore,
                        !.pointsAgainst = @ + awayScore]
             a0 == [standings[fixture.awayTeam] EXCEPT
                        !.played = @ + 1,
                        !.pointsFor = @ + awayScore,
                        !.pointsAgainst = @ + homeScore]
             m  == MatchOutcome(h0, a0, homeScore, awayScore)
             b  == TryBonusBlock(m.home, m.away, result)
         IN  IF ~(hs.ok /\ as.ok /\ hs.isList /\ as.isList)
             THEN standings
             ELSE [standings EXCEPT ![fixture.homeTeam] = WithDifference(b.home),
                                    ![fixture.awayTeam] = WithDifference(b.away)]

\* Body of leagueFixtures.forEach(fixture => { ... }) on the standings object.
ProcessFixture(standings, fixture, resultsMap) ==
    IF fixture.id \notin DOMAIN resultsMap
    THEN standings
    ELSE LET result == resultsMap[fixture.id]
             homeScore == ParseScore(result.homeScore)
             awayScore == ParseScore(result.awayScore)
             h0 == [standings[fixture.homeTeam] EXCEPT
                        !.played = @ + 1,
                        !.pointsFor = @ + homeScore,
                        !.pointsAgainst = @ + awayScore]
             a0 == [standings[fixture.awayTeam] EXCEPT
                        !.played = @ + 1,
                        !.pointsFor = @ + awayScore,
                        !.pointsAgainst = @ + homeScore]
             m  == MatchOutcome(h0, a0, homeScore, awayScore)
             b  == TryBonusBlock(m.home, m.away, result)
         IN  [standings EXCEPT ![fixture.homeTeam] = WithDifference(b.home),
                               ![fixture.awayTeam] = WithDifference(b.away)]

RECURSIVE Aggregate(_, _, _)
Aggregate(standings, leagueFixtures, resultsMap) ==
    IF leagueFixtures = <<>>
    THEN standings
    ELSE Aggregate(ProcessFixture(standings, Head(leagueFixtures), resultsMap),
                   Tail(leagueFixtures), resultsMap)

\* Object.values(standings): integer keys enumerate in ascending order.
RECURSIVE ObjectValues(_, _)
ObjectValues(standings, keys) ==
    IF keys = {}
    THEN <<>>
    ELSE LET k == CHOOSE x \in keys : \A y \in keys : x <= y
         IN  <<standings[k]>> \o ObjectValues(standings, keys \ {k})

\* Mutant: the comparator stops at the points difference.
compare_NoPointsFor(a, b) ==
    IF b.points # a.points THEN b.points - a.points
    ELSE b.pointsDifference - a.pointsDifference

\* The comparator of sortedTeams: negative puts a first.
compare(a, b) ==
    IF b.points # a.points THEN b.points - a.points
    ELSE IF b.pointsDifference # a.pointsDifference
         THEN b.pointsDifference - a.pointsDifference
         ELSE b.pointsFor - a.pointsFor

\* Array.prototype.sort is stable: x, later in the array, goes after every
\* element that does not compare greater than it.
RECURSIVE InsertSorted(_, _)
InsertSorted(s, x) ==
    IF s = <<>> THEN <<x>>
    ELSE IF compare(Head(s), x) <= 0
         THEN <<Head(s)>> \o InsertSorted(Tail(s), x)
         ELSE <<x>> \o s

RECURSIVE sort(_)
sort(s) ==
    IF s = <<>> THEN <<>>
    ELSE InsertSorted(sort(SubSeq(s, 1, Len(s) - 1)), s[Len(s)])

\* sortedTeams.forEach((team, index) => { team.position = index + 1 })
AssignPositions(s) ==
    [i \in DOMAIN s |->
        [teamID |-> s[i].teamID, played |-> s[i].played, won |-> s[i].won,
         drawn |-> s[i].drawn, lost |-> s[i].lost, pointsFor |-> s[i].pointsFor,
         pointsAgainst |-> s[i].pointsAgainst,
         pointsDifference |-> s[i].pointsDifference,
         bonusPoints |-> s[i].bonusPoints, points |-> s[i].points,
         position |-> i]]

\* Lines 77-196: from the two reads to the ranked list.
sortedTeamsOf(leagueFixtures, allResults) ==
    LET resultsMap == resultsMapOf(allResults)
        teamIDs    == teamIDsOf(leagueFixtures)
        standings  == Aggregate([t \in teamIDs |-> ZeroStanding(t)],
                                leagueFixtures, resultsMap)
    IN  AssignPositions(sort(ObjectValues(standings, teamIDs)))

\* Mutant: the payload is the ranked entry itself, position included.
standingDataOf_WithPosition(leagueID, team) ==
    [leagueID |-> leagueID, teamID |-> team.teamID, played |-> team.played,
     won |-> team.won, drawn |-> team.drawn, lost |-> team.lost,
     pointsFor |-> team.pointsFor, pointsAgainst |-> team.pointsAgainst,
     pointsDifference |-> team.pointsDifference,
     bonusPoints |-> team.bonusPoints, points |-> team.points,
     position |-> team.position]

\* const standingData = { leagueID, teamID: team.teamID, played: ..., points: ... }
standingDataOf(leagueID, team) ==
    [leagueID |-> leagueID, teamID |-> team.teamID, played |-> team.played,
     won |-> team.won, drawn |-> team.drawn, lost |-> team.lost,
     pointsFor |-> team.pointsFor, pointsAgainst |-> team.pointsAgainst,
     pointsDifference |-> team.pointsDifference,
     bonusPoints |-> team.bonusPoints, points |-> team.points]

\* ------------------------------------------------------------ the data store
\* Outcome of one crudRequest: status_code 200, another status_code, or a
\* rejected promise (no token, network error, 403 session expiry).
Outcomes == {"ok", "fail", "throw"}

ThrownMessage == "Session expired. Please login again."

Read(table) == [op |-> "read", table |-> table]
Create(data) == [op |-> "create", table |-> "tblstandings", id |-> 0, data |-> data]
Update(id, data) == [op |-> "update", table |-> "tblstandings", id |-> id, data |-> data]
NoRequest == [op |-> "none"]

\* A tblstandings row: the payload columns and the AUTO_INCREMENT id.
RowOf(id, data) ==
    [id |-> id, leagueID |-> data.leagueID, teamID |-> data.teamID,
     played |-> data.played, won |-> data.won, drawn |-> data.drawn,
     lost |-> data.lost, pointsFor |-> data.pointsFor,
     pointsAgainst |-> data.pointsAgainst,
     pointsDifference |-> data.pointsDifference,
     bonusPoints |-> data.bonusPoints, points |-> data.points]

\* Mutant: the table rejects a second row of a (leagueID, teamID) pair.
ApplyWrite_UniquePair(table, req, id) ==
    IF req.op = "create"
    THEN (IF \E i \in DOMAIN table : /\ table[i].leagueID = req.data.leagueID
                                      /\ table[i].teamID = req.data.teamID
          THEN table
          ELSE Append(table, RowOf(id, req.data)))
    ELSE [i \in DOMAIN table |->
             IF table[i].id = req.id THEN RowOf(req.id, req.data) ELSE table[i]]

\* Mutant: the update matches on the team instead of the row id.
ApplyWrite_UpdateByTeam(table, req, id) ==
    IF req.op = "create"
    THEN Append(table, RowOf(id, req.data))
    ELSE [i \in DOMAIN table |->
             IF table[i].teamID = req.data.teamID
             THEN RowOf(table[i].id, req.data) ELSE table[i]]

\* /api/crud/create and /api/crud/update with conditions { id } on tblstandings.
ApplyWrite(table, req, id) ==
    IF req.op = "create"
    THEN Append(table, RowOf(id, req.data))
    ELSE [i \in DOMAIN table |->
             IF table[i].id = req.id THEN RowOf(req.id, req.data) ELSE table[i]]

\* Mutant: the strict comparison never matches (a number against a string).
FindStanding_NeverMatches(existingStandings, leagueID, teamID) == NoRow

\* existingStandings.find(s => s.leagueID === leagueID && s.teamID === team.teamID)
FindStanding(existingStandings, leagueID, teamID) ==
    LET hits == {i \in DOMAIN existingStandings :
                    /\ existingStandings[i].leagueID = leagueID
                    /\ existingStandings[i].teamID = teamID}
    IN  IF hits = {} THEN NoRow
        ELSE existingStandings[CHOOSE i \in hits : \A j \in hits : i <= j]

\* Mutant: find falls back to the first row when no id matches.
FindById_FirstRow(rows, id) ==
    LET hits == {i \in DOMAIN rows : rows[i].id = id}
    IN  IF hits = {} THEN (IF rows = <<>> THEN NoRow ELSE rows[1])
        ELSE rows[CHOOSE i \in hits : \A j \in hits : i <= j]

\* fixtures.find(f => f.id === fixtureID), leagues.find(l => l.id === fixture.leagueID)
FindById(rows, id) ==
    LET hits == {i \in DOMAIN rows : rows[i].id = id}
    IN  IF hits = {} THEN NoRow
        ELSE rows[CHOOSE i \in hits : \A j \in hits : i <= j]

\* ------------------------------------------------- current-season config
\* config.currentSeason of the fetched /.config.json: a season, or a falsy
\* value (the field is missing or empty).
NoCurrentSeason == ""
ConfigSeasons == Seasons \cup {NoCurrentSeason}

PendingFetch == [fetch |-> "pending", currentSeason |-> NoCurrentSeason]
LoadedFetch(currentSeason) == [fetch |-> "loaded", currentSeason |-> currentSeason]
FailedFetch == [fetch |-> "failed", currentSeason |-> NoCurrentSeason]

\* Mutant: the assignment takes config.currentSeason as it is.
SeasonFromConfig_NoFallback(currentSeason, current) == currentSeason

\* Mutant: the fetched value is dropped.
SeasonFromConfig_KeepsCurrent(currentSeason, current) == current

\* config.currentSeason || CURRENT_SEASON
SeasonFromConfig(currentSeason, current) ==
    IF currentSeason = NoCurrentSeason THEN current ELSE currentSeason

\* .then(config => { CURRENT_SEASON = config.currentSeason || CURRENT_SEASON })
ConfigLoaded(currentSeason) ==
    /\ configFetch.fetch = "pending"
    /\ configFetch' = LoadedFetch(currentSeason)
    /\ CURRENT_SEASON' = SeasonFromConfig(currentSeason, CURRENT_SEASON)
    /\ UNCHANGED <<ui, tblfixtures, tblresults, tblleagues, tblstandings, nextId,
                   calls, ncalls, lastRun>>

\* .catch(error => { console.warn(...) }): the fetch was rejected or the body
\* is not JSON.
ConfigFailed ==
    /\ configFetch.fetch = "pending"
    /\ configFetch' = FailedFetch
    /\ UNCHANGED <<ui, CURRENT_SEASON, tblfixtures, tblresults, tblleagues,
                   tblstandings, nextId, calls, ncalls, lastRun>>

\* ------------------------------------------------------------ engine calls
NoRet == [success |-> FALSE, message |-> ""]
Ret(success, message) == [success |-> success, message |-> message]
NotCurrentSeason == "Not current season"
UpdatedMessage == "Standings updated successfully"

IdleCall ==
    [pc |-> "idle", entry |-> "none", leagueID |-> 0, leagueSeason |-> "",
     fixtureID |-> 0, leagueFixtures |-> <<>>, sortedTeams |-> <<>>,
     computed |-> FALSE, idx |-> 0, request |-> NoRequest, ret |-> NoRet,
     log |-> <<>>, before |-> <<>>, stable |-> TRUE, prev |-> 0, gate |-> ""]

InFlight(c) == c.pc \notin {"idle", "done"}

\* return { success, message }
Return(c, ret) == [c EXCEPT !.pc = "done", !.ret = ret, !.request = NoRequest]

\* await crudRequest(...): the request is issued and the call is suspended.
Await(c, pc, req) == [c EXCEPT !.pc = pc, !.request = req]

\* The awaited crudRequest resolves (or rejects) with the given outcome.
Resolved(c, outcome) ==
    [c EXCEPT !.log = Append(@, [op |-> c.request.op, table |-> c.request.table,
                                 at |-> c.pc, outcome |-> outcome])]

\* Every crudRequest of the call so far returned status_code 200.
AllOk(c) == \A i \in DOMAIN c.log : c.log[i].outcome = "ok"

\* Mutant: the catch block swallows the error and reports success.
Catch_ReportsSuccess(c, message) == Return(c, Ret(TRUE, UpdatedMessage))

\* catch (error) { return { success: false, message: error.message } }
Catch(c, message) == Return(c, Ret(FALSE, message))

\* Mutant: no season gate.
CalcEnter_NoGate(c, leagueID, leagueSeason, season) ==
    Await([c EXCEPT !.leagueID = leagueID, !.leagueSeason = leagueSeason,
                    !.gate = season],
          "awaitFixtures", Read("tblfixtures"))

\* calculateLeagueStandings up to its first await: the season gate. gate keeps
\* the value CURRENT_SEASON had when the gate was evaluated.
CalcEnter(c, leagueID, leagueSeason, season) ==
    LET c1 == [c EXCEPT !.leagueID = leagueID, !.leagueSeason = leagueSeason,
                        !.gate = season]
    IN  IF leagueSeason # season
        THEN Return(c1, Ret(TRUE, NotCurrentSeason))
        ELSE Await(c1, "awaitFixtures", Read("tblfixtures"))

\* Mutant: after the loop, a non-200 reply of any request is reported.
LoopHead_ChecksStatus(c, idx) ==
    IF idx > Len(c.sortedTeams)
    THEN (IF AllOk(c) THEN Return(c, Ret(TRUE, UpdatedMessage))
          ELSE Return(c, Ret(FALSE, "Failed to update standings")))
    ELSE Await([c EXCEPT !.idx = idx], "awaitStandings", Read("tblstandings"))

\* for (const team of sortedTeams) { const existingResult = await crudRequest('read', ...)
LoopHead(c, idx) ==
    IF idx > Len(c.sortedTeams)
    THEN Return(c, Ret(TRUE, UpdatedMessage))
    ELSE Await([c EXCEPT !.idx = idx], "awaitStandings", Read("tblstandings"))

\* The run that just returned, if it read and wrote everything with status 200.
CleanRun(c) ==
    IF c.pc = "done" /\ AllOk(c) /\ c.stable /\ c.ret = Ret(TRUE, UpdatedMessage)
    THEN c.leagueID ELSE 0

Step(p, c) ==
    /\ calls' = [calls EXCEPT ![p] = c]
    /\ lastRun' = IF c.pc = "done" THEN CleanRun(c) ELSE lastRun

\* calculateLeagueStandings(league.id, league.leagueSeason) is called for a
\* league row, as recalculateAll does.
CallCalculate(p, leagueID, leagueSeason) ==
    /\ ~InFlight(calls[p])
    /\ FindById(tblleagues, leagueID) # NoRow
    /\ FindById(tblleagues, leagueID).leagueSeason = leagueSeason
    /\ ncalls < MaxCalls
    /\ ncalls' = ncalls + 1
    /\ Step(p, CalcEnter([IdleCall EXCEPT !.entry = "calculateLeagueStandings",
                                          !.before = tblstandings,
                                          !.prev = lastRun],
                         leagueID, leagueSeason, CURRENT_SEASON))
    /\ UNCHANGED <<ui, configFetch, CURRENT_SEASON, tblfixtures, tblresults, tblleagues,
                   tblstandings, nextId>>

\* The tblfixtures read of calculateLeagueStandings resolves.
FixturesRead(p, outcome) ==
    /\ calls[p].pc = "awaitFixtures"
    /\ LET c == Resolved(calls[p], outcome)
       IN  Step(p, CASE outcome = "throw" -> Catch(c, ThrownMessage)
                     [] outcome = "fail"  -> Catch(c, "Failed to fetch fixtures")
                     [] OTHER ->
                          Await([c EXCEPT !.leagueFixtures =
                                     leagueFixturesOf(tblfixtures, c.leagueID)],
                                "awaitResults", Read("tblresults")))
    /\ UNCHANGED <<ui, configFetch, CURRENT_SEASON, tblfixtures, tblresults, tblleagues,
                   tblstandings, nextId, ncalls>>

\* The tblresults read resolves: aggregate, rank, enter the persistence loop.
ResultsRead(p, outcome) ==
    /\ calls[p].pc = "awaitResults"
    /\ LET c == Resolved(calls[p], outcome)
       IN  Step(p, CASE outcome = "throw" -> Catch(c, ThrownMessage)
                     [] outcome = "fail"  -> Catch(c, "Failed to fetch results")
                     [] OTHER ->
                          LoopHead([c EXCEPT !.sortedTeams =
                                        sortedTeamsOf(c.leagueFixtures, tblresults),
                                             !.computed = TRUE], 1))
    /\ UNCHANGED <<ui, configFetch, CURRENT_SEASON, tblfixtures, tblresults, tblleagues,
                   tblstandings, nextId, ncalls>>

\* The tblstandings read of one team resolves: find the row, issue the write.
StandingsRead(p, outcome) ==
    /\ calls[p].pc = "awaitStandings"
    /\ LET c == Resolved(calls[p], outcome)
           team == c.sortedTeams[c.idx]
           existingStandings == IF outcome = "ok" THEN tblstandings ELSE <<>>
           existing == FindStanding(existingStandings, c.leagueID, team.teamID)
           standingData == standingDataOf(c.leagueID, team)
       IN  Step(p, IF outcome = "throw"
                   THEN Catch(c, ThrownMessage)
                   ELSE Await(c, "awaitWrite",
                              IF existing # NoRow
                              THEN Update(existing.id, standingData)
                              ELSE Create(standingData)))
    /\ UNCHANGED <<ui, configFetch, CURRENT_SEASON, tblfixtures, tblresults, tblleagues,
                   tblstandings, nextId, ncalls>>

\* Mutant: the standings are read once; after the first write the next team's
\* create is issued without a read of its own.
WriteDone_NoReadForNextTeam(p, outcome) ==
    /\ calls[p].pc = "awaitWrite"
    /\ LET c == Resolved(calls[p], outcome)
       IN  /\ Step(p, IF outcome = "throw"
                      THEN Catch(c, ThrownMessage)
                      ELSE IF c.idx + 1 > Len(c.sortedTeams)
                           THEN Return(c, Ret(TRUE, UpdatedMessage))
                           ELSE Await([c EXCEPT !.idx = c.idx + 1], "awaitWrite",
                                      Create(standingDataOf(c.leagueID,
                                                 c.sortedTeams[c.idx + 1]))))
           /\ tblstandings' = IF outcome = "ok"
                              THEN ApplyWrite(tblstandings, c.request, nextId)
                              ELSE tblstandings
           /\ nextId' = IF outcome = "ok" /\ c.request.op = "create"
                        THEN nextId + 1 ELSE nextId
    /\ UNCHANGED <<ui, configFetch, CURRENT_SEASON, tblfixtures, tblresults, tblleagues, ncalls>>

\* The create or update of one team resolves; its status_code is not looked at.
WriteDone(p, outcome) ==
    /\ calls[p].pc = "awaitWrite"
    /\ LET c == Resolved(calls[p], outcome)
       IN  /\ Step(p, IF outcome = "throw"
                      THEN Catch(c, ThrownMessage)
                      ELSE LoopHead(c, c.idx + 1))
           /\ tblstandings' = IF outcome = "ok"
                              THEN ApplyWrite(tblstandings, c.request, nextId)
                              ELSE tblstandings
           /\ nextId' = IF outcome = "ok" /\ c.request.op = "create"
                        THEN nextId + 1 ELSE nextId
    /\ UNCHANGED <<ui, configFetch, CURRENT_SEASON, tblfixtures, tblresults, tblleagues, ncalls>>

\* updateStandingsForFixture(fixtureID) is called.
CallUpdateForFixture(p, fixtureID) ==
    /\ ~InFlight(calls[p])
    /\ ncalls < MaxCalls
    /\ ncalls' = ncalls + 1
    /\ Step(p, Await([IdleCall EXCEPT !.entry = "updateStandingsForFixture",
                                      !.fixtureID = fixtureID,
                                      !.before = tblstandings,
                                      !.prev = lastRun],
                     "awaitFixture", Read("tblfixtures")))
    /\ UNCHANGED <<ui, configFetch, CURRENT_SEASON, tblfixtures, tblresults, tblleagues,
                   tblstandings, nextId>>

\* The tblfixtures read of updateStandingsForFixture resolves.
FixtureLookup(p, outcome) ==
    /\ calls[p].pc = "awaitFixture"
    /\ LET c == Resolved(calls[p], outcome)
           fixture == FindById(tblfixtures, c.fixtureID)
       IN  Step(p, CASE outcome = "throw" -> Catch(c, ThrownMessage)
                     [] outcome = "fail"  -> Catch(c, "Failed to fetch fixture")
                     [] OTHER ->
                          IF fixture = NoRow
                          THEN Catch(c, "Fixture not found")
                          ELSE Await([c EXCEPT !.leagueID = fixture.leagueID],
                                     "awaitLeague", Read("tblleagues")))
    /\ UNCHANGED <<ui, configFetch, CURRENT_SEASON, tblfixtures, tblresults, tblleagues,
                   tblstandings, nextId, ncalls>>

\* Mutant: the delegation passes the current season instead of the league's.
LeagueLookup_PassesCurrentSeason(p, outcome) ==
    /\ calls[p].pc = "awaitLeague"
    /\ LET c == Resolved(calls[p], outcome)
           league == FindById(tblleagues, c.leagueID)
       IN  Step(p, CASE outcome = "throw" -> Catch(c, ThrownMessage)
                     [] outcome = "fail"  -> Catch(c, "Failed to fetch leagues")
                     [] OTHER ->
                          IF league = NoRow
                          THEN Catch(c, "League not found")
                          ELSE CalcEnter(c, c.leagueID, CURRENT_SEASON,
                                         CURRENT_SEASON))
    /\ UNCHANGED <<ui, configFetch, CURRENT_SEASON, tblfixtures, tblresults, tblleagues,
                   tblstandings, nextId, ncalls>>

\* The tblleagues read resolves: delegate to calculateLeagueStandings.
LeagueLookup(p, outcome) ==
    /\ calls[p].pc = "awaitLeague"
    /\ LET c == Resolved(calls[p], outcome)
           league == FindById(tblleagues, c.leagueID)
       IN  Step(p, CASE outcome = "throw" -> Catch(c, ThrownMessage)
                     [] outcome = "fail"  -> Catch(c, "Failed to fetch leagues")
                     [] OTHER ->
                          IF league = NoRow
                          THEN Catch(c, "League not found")
                          ELSE CalcEnter(c, c.leagueID, league.leagueSeason,
                                         CURRENT_SEASON))
    /\ UNCHANGED <<ui, configFetch, CURRENT_SEASON, tblfixtures, tblresults, tblleagues,
                   tblstandings, nextId, ncalls>>

\* ResultsAdmin / TeamAdmin handleSubmit with status Cancelled or Abandoned:
\* only the fixture's status is updated.
MarkFixture(f, status) ==
    /\ ncalls < MaxCalls
    /\ tblfixtures[f].status # status
    /\ tblfixtures' = [tblfixtures EXCEPT ![f].status = status]
    /\ calls' = [p \in Procs |->
                    IF InFlight(calls[p])
                    THEN [calls[p] EXCEPT !.prev = 0, !.stable = FALSE]
                    ELSE calls[p]]
    /\ lastRun' = 0
    /\ UNCHANGED <<ui, configFetch, CURRENT_SEASON, tblresults, tblleagues, tblstandings,
                   nextId, ncalls>>

\* --------------------------------------------------------- table rows
\* Fixture f is team f (home) against team f + 1 (away).
FixtureRow(f, leagueID, status) ==
    [id |-> f, leagueID |-> leagueID, homeTeam |-> f, awayTeam |-> f + 1,
     status |-> status]

ResultRow(id, fixtureID, homeScore, awayScore, homeScorers, awayScorers) ==
    [id |-> id, fixtureID |-> fixtureID, homeScore |-> homeScore,
     awayScore |-> awayScore, homeScorers |-> homeScorers,
     awayScorers |-> awayScorers]

LeagueRow(id, leagueSeason) == [id |-> id, leagueSeason |-> leagueSeason]

\* ------------------------------------------------------- the admin pages
\* State of the page whose handler runs: the handler and its position, the
\* form (editingFixture, resultData.status), what setError / setSuccess /
\* setMessage last set, isProcessing, the counters of recalculateAll, and the
\* requests and calls the handler has made so far.
IdleUI ==
    [handler |-> "none", component |-> "none", pc |-> "idle", fixtureID |-> 0,
     status |-> 0, operation |-> "none", wasCompleted |-> FALSE,
     error |-> "", success |-> "", isProcessing |-> FALSE, idx |-> 0,
     successCount |-> 0, skipCount |-> 0, currentSeasonProcessed |-> "",
     log |-> <<>>]

Components == {"ResultsAdmin", "TeamAdmin"}

UIRunning == ui.pc \notin {"idle", "ended"}

\* One entry of the handler's history: a crudRequest of the handler with its
\* outcome, a call of the engine, or the start of the e-mail notifications.
Event(ev, arg) == [ev |-> ev, arg |-> arg]

\* The handler ends; setError / setSuccess keep what was set last.
EndUI(u) == [u EXCEPT !.pc = "ended"]

\* setEditingFixture(null); await fetchData(): the refresh starts with
\* setError('') (its reads return 200).
Refreshed(u) == [u EXCEPT !.error = ""]

\* The form's result: JSON.stringify of the scorer rows gives a JSON list.
SubmittedScores == <<13, 20>>
SubmittedScorers == <<ThreeTries, FourTries>>

\* crudRequest('update', { table: 'tblfixtures', data: { status }, conditions: { id } })
SetFixtureStatus(table, id, status) ==
    [i \in DOMAIN table |->
        IF table[i].id = id THEN [table[i] EXCEPT !.status = status] ELSE table[i]]

\* crudRequest(operation, requestData) on tblresults: an update on
\* conditions { fixtureID }, or a create with the next AUTO_INCREMENT id.
SaveResult(table, operation, fixtureID) ==
    IF operation = "update"
    THEN [i \in DOMAIN table |->
             IF table[i].fixtureID = fixtureID
             THEN ResultRow(table[i].id, fixtureID, SubmittedScores[1],
                            SubmittedScores[2], SubmittedScorers[1],
                            SubmittedScorers[2])
             ELSE table[i]]
    ELSE Append(table, ResultRow(Len(table) + 1, fixtureID, SubmittedScores[1],
                                 SubmittedScores[2], SubmittedScorers[1],
                                 SubmittedScorers[2]))

\* editingFixture.result: the fixture was loaded with a result row.
FixtureHasResult(fixtureID) ==
    \E i \in DOMAIN tblresults : tblresults[i].fixtureID = fixtureID

\* handleSubmit of the result form up to its first await.
SubmitResult(component, f, status) ==
    /\ ~UIRunning
    /\ ~InFlight(calls[1])
    /\ ncalls < MaxOps
    /\ ncalls' = ncalls + 1
    /\ LET id == tblfixtures[f].id
           u == [IdleUI EXCEPT !.handler = "handleSubmit",
                               !.component = component,
                               !.fixtureID = id,
                               !.status = status,
                               !.wasCompleted = (tblfixtures[f].status = Completed
                                                 /\ FixtureHasResult(id))]
       IN  ui' = IF status \in {Cancelled, Abandoned}
                 THEN [u EXCEPT !.pc = "awaitStatusOnly"]
                 ELSE [u EXCEPT !.pc = "awaitResult",
                                !.operation = IF FixtureHasResult(id)
                                              THEN "update" ELSE "create"]
    /\ UNCHANGED <<configFetch, CURRENT_SEASON, tblfixtures, tblresults,
                   tblleagues, tblstandings, nextId, calls, lastRun>>

\* Cancelled or Abandoned: the fixture status update resolves.
StatusOnlyDone(outcome) ==
    /\ ui.pc = "awaitStatusOnly"
    /\ LET u == [ui EXCEPT !.log = Append(@, Event("fixtureUpdate", outcome))]
       IN  ui' = CASE outcome = "ok" ->
                        EndUI(Refreshed([u EXCEPT !.success =
                            IF ui.status = Cancelled
                            THEN "Match marked as cancelled"
                            ELSE "Match marked as abandoned"]))
                   [] outcome = "fail" ->
                        EndUI([u EXCEPT !.error = "Failed to update match status"])
                   [] OTHER -> EndUI([u EXCEPT !.error = "Failed to save result"])
    /\ tblfixtures' = IF outcome = "ok"
                      THEN SetFixtureStatus(tblfixtures, ui.fixtureID, ui.status)
                      ELSE tblfixtures
    /\ lastRun' = IF outcome = "ok" THEN 0 ELSE lastRun
    /\ UNCHANGED <<configFetch, CURRENT_SEASON, tblresults, tblleagues,
                   tblstandings, nextId, calls, ncalls>>

\* The create or update of the result resolves.
ResultWriteDone(outcome) ==
    /\ ui.pc = "awaitResult"
    /\ LET u == [ui EXCEPT !.log = Append(@, Event("resultWrite", outcome))]
       IN  ui' = CASE outcome = "ok" -> [u EXCEPT !.pc = "awaitFixtureStatus"]
                   [] outcome = "fail" ->
                        EndUI([u EXCEPT !.error = "Operation failed"])
                   [] OTHER -> EndUI([u EXCEPT !.error = "Failed to save result"])
    /\ tblresults' = IF outcome = "ok"
                     THEN SaveResult(tblresults, ui.operation, ui.fixtureID)
                     ELSE tblresults
    /\ lastRun' = IF outcome = "ok" THEN 0 ELSE lastRun
    /\ UNCHANGED <<configFetch, CURRENT_SEASON, tblfixtures, tblleagues,
                   tblstandings, nextId, calls, ncalls>>

\* The call the handler makes: await updateStandingsForFixture(editingFixture.id)
UpdateCall(fixtureID) ==
    Await([IdleCall EXCEPT !.entry = "updateStandingsForFixture",
                           !.fixtureID = fixtureID,
                           !.before = tblstandings],
          "awaitFixture", Read("tblfixtures"))

SavedMessage(operation) ==
    IF operation = "update" THEN "Result updated successfully"
    ELSE "Result added successfully"

\* Variant: the recalculation is started whatever the submitted status.
FixtureStatusDone_AnyStatus(outcome) ==
    /\ ui.pc = "awaitFixtureStatus"
    /\ LET u == [ui EXCEPT !.log = Append(@, Event("fixtureUpdate", outcome))]
           recalc == outcome = "ok"
       IN  /\ ui' = CASE outcome = "throw" ->
                          EndUI([u EXCEPT !.error = "Failed to save result"])
                     [] outcome = "fail" ->
                          EndUI(Refreshed([u EXCEPT !.error =
                              "Result saved but failed to update fixture status"]))
                     [] recalc ->
                          [u EXCEPT !.pc = "awaitStandingsUpdate",
                                    !.log = Append(@, Event("updateStandingsForFixture",
                                                            ui.fixtureID))]
                     [] OTHER ->
                          EndUI(Refreshed([u EXCEPT !.success =
                                               SavedMessage(ui.operation)]))
           /\ calls' = IF recalc
                       THEN [calls EXCEPT ![1] = UpdateCall(ui.fixtureID)]
                       ELSE calls
    /\ tblfixtures' = IF outcome = "ok"
                      THEN SetFixtureStatus(tblfixtures, ui.fixtureID, ui.status)
                      ELSE tblfixtures
    /\ lastRun' = IF outcome = "ok" THEN 0 ELSE lastRun
    /\ UNCHANGED <<configFetch, CURRENT_SEASON, tblresults, tblleagues,
                   tblstandings, nextId, ncalls>>

\* The fixture status update after the result was saved resolves; with status
\* Completed the handler calls updateStandingsForFixture.
FixtureStatusDone(outcome) ==
    /\ ui.pc = "awaitFixtureStatus"
    /\ LET u == [ui EXCEPT !.log = Append(@, Event("fixtureUpdate", outcome))]
           recalc == outcome = "ok" /\ ui.status = Completed
       IN  /\ ui' = CASE outcome = "throw" ->
                          EndUI([u EXCEPT !.error = "Failed to save result"])
                     [] outcome = "fail" ->
                          EndUI(Refreshed([u EXCEPT !.error =
                              "Result saved but failed to update fixture status"]))
                     [] recalc ->
                          [u EXCEPT !.pc = "awaitStandingsUpdate",
                                    !.log = Append(@, Event("updateStandingsForFixture",
                                                            ui.fixtureID))]
                     [] OTHER ->
                          EndUI(Refreshed([u EXCEPT !.success =
                                               SavedMessage(ui.operation)]))
           /\ calls' = IF recalc
                       THEN [calls EXCEPT ![1] = UpdateCall(ui.fixtureID)]
                       ELSE calls
    /\ tblfixtures' = IF outcome = "ok"
                      THEN SetFixtureStatus(tblfixtures, ui.fixtureID, ui.status)
                      ELSE tblfixtures
    /\ lastRun' = IF outcome = "ok" THEN 0 ELSE lastRun
    /\ UNCHANGED <<configFetch, CURRENT_SEASON, tblresults, tblleagues,
                   tblstandings, nextId, ncalls>>

\* updateStandingsForFixture has returned; its return value is not looked at.
\* ResultsAdmin then starts the result notifications (errors are logged);
\* both pages end with setSuccess and the refresh.
StandingsReturned ==
    /\ ui.pc = "awaitStandingsUpdate"
    /\ calls[1].pc = "done"
    /\ LET r == [ui EXCEPT !.log = Append(@, Event("returned", calls[1].ret))]
           u == IF ui.component = "ResultsAdmin"
                THEN [r EXCEPT !.log = Append(@, Event("sendResultNotifications",
                                                       ui.fixtureID))]
                ELSE r
       IN  ui' = EndUI(Refreshed([u EXCEPT !.success = SavedMessage(ui.operation)]))
    /\ UNCHANGED <<configFetch, CURRENT_SEASON, tblfixtures, tblresults,
                   tblleagues, tblstandings, nextId, calls, ncalls, lastRun>>

\* The call recalculateAll makes for a league row.
CalcCall(league) ==
    CalcEnter([IdleCall EXCEPT !.entry = "calculateLeagueStandings",
                               !.before = tblstandings,
                               !.prev = lastRun],
              league.id, league.leagueSeason, CURRENT_SEASON)

\* recalculateAll up to its first await.
RecalculateAll ==
    /\ ~UIRunning
    /\ ~InFlight(calls[1])
    /\ ncalls < MaxOps
    /\ ncalls' = ncalls + 1
    /\ ui' = [IdleUI EXCEPT !.handler = "recalculateAll",
                            !.component = "RecalculateStandings",
                            !.isProcessing = TRUE,
                            !.pc = "awaitLeagues"]
    /\ UNCHANGED <<configFetch, CURRENT_SEASON, tblfixtures, tblresults,
                   tblleagues, tblstandings, nextId, calls, lastRun>>

\* Variant: the notifications are sent after every recalculation.
FinishRecalculation_AlwaysSends(u) ==
    EndUI([u EXCEPT !.log = Append(@, Event("sendStandingsNotifications",
                                            u.currentSeasonProcessed)),
                    !.success = "Recalculation complete! Email notifications sent to followers.",
                    !.isProcessing = FALSE])

\* After the loop: notifications if a league was updated, the message, and
\* the finally block.
FinishRecalculation(u) ==
    LET sent == u.successCount > 0 /\ u.currentSeasonProcessed # ""
        u1 == IF sent
              THEN [u EXCEPT !.log = Append(@, Event("sendStandingsNotifications",
                                                     u.currentSeasonProcessed)),
                             !.success = "Recalculation complete! Email notifications sent to followers."]
              ELSE [u EXCEPT !.success = "Recalculation complete!"]
    IN  EndUI([u1 EXCEPT !.isProcessing = FALSE])

\* catch (err) { setError('Failed to recalculate standings: ' + err.message) } finally
FailRecalculation(u, message) ==
    EndUI([u EXCEPT !.error = message, !.isProcessing = FALSE])

\* The tblleagues read of recalculateAll resolves: the loop starts.
LeaguesRead(outcome) ==
    /\ ui.pc = "awaitLeagues"
    /\ LET u == [ui EXCEPT !.log = Append(@, Event("leaguesRead", outcome))]
           start == outcome = "ok" /\ tblleagues # <<>>
       IN  /\ ui' = CASE outcome = "throw" ->
                          FailRecalculation(u, "Failed to recalculate standings: Session expired. Please login again.")
                     [] outcome = "fail" ->
                          FailRecalculation(u, "Failed to recalculate standings: Failed to fetch leagues")
                     [] start ->
                          [u EXCEPT !.pc = "awaitLeagueCalc", !.idx = 1,
                                    !.log = Append(@, Event("calculateLeagueStandings",
                                                            tblleagues[1].id))]
                     [] OTHER -> FinishRecalculation(u)
           /\ IF start
              THEN Step(1, CalcCall(tblleagues[1]))
              ELSE UNCHANGED <<calls, lastRun>>
    /\ UNCHANGED <<configFetch, CURRENT_SEASON, tblfixtures, tblresults,
                   tblleagues, tblstandings, nextId, ncalls>>

\* calculateLeagueStandings has returned for the league at the loop position:
\* count it, then call the next league or finish.
LeagueCalcReturned ==
    /\ ui.pc = "awaitLeagueCalc"
    /\ calls[1].pc = "done"
    /\ LET result == calls[1].ret
           league == tblleagues[ui.idx]
           r == [ui EXCEPT !.log = Append(@, Event("returned", result))]
           u == IF result.success
                THEN (IF result.message = NotCurrentSeason
                      THEN [r EXCEPT !.skipCount = @ + 1]
                      ELSE [r EXCEPT !.successCount = @ + 1,
                                     !.currentSeasonProcessed = league.leagueSeason])
                ELSE r
           more == ui.idx < Len(tblleagues)
       IN  /\ ui' = IF more
                    THEN [u EXCEPT !.idx = ui.idx + 1,
                                   !.log = Append(@, Event("calculateLeagueStandings",
                                                           tblleagues[ui.idx + 1].id))]
                    ELSE FinishRecalculation(u)
           /\ IF more
              THEN Step(1, CalcCall(tblleagues[ui.idx + 1]))
              ELSE UNCHANGED <<calls, lastRun>>
    /\ UNCHANGED <<configFetch, CURRENT_SEASON, tblfixtures, tblresults,
                   tblleagues, tblstandings, nextId, ncalls>>

\* ----------------------------------------------------------- initial states
\* The config fetch has resolved before the first call, with the season the
\* deployed config names.
InitEngine ==
    /\ ui = IdleUI
    /\ configFetch = LoadedFetch(FallbackSeason)
    /\ CURRENT_SEASON = FallbackSeason
    /\ tblstandings = <<>>
    /\ nextId = 1
    /\ calls = [p \in Procs |-> IdleCall]
    /\ ncalls = 0
    /\ lastRun = 0

\* Two completed fixtures with results, one in each league; team 2 plays in
\* both leagues. League 2 is of the current season or of an earlier one, or
\* its row is gone from tblleagues (no foreign key keeps it).
Init ==
    /\ InitEngine
    /\ \/ \E s \in Seasons :
              tblleagues = <<LeagueRow(1, FallbackSeason), LeagueRow(2, s)>>
       \/ tblleagues = <<LeagueRow(1, FallbackSeason)>>
    /\ tblfixtures = <<FixtureRow(1, 1, Completed), FixtureRow(2, 2, Completed)>>
    /\ tblresults = <<ResultRow(1, 1, 20, 13, FourTries, ThreeTries),
                      ResultRow(2, 2, 13, 13, ThreeTries, NullScorers)>>

\* One engine call at a time.
Next ==
    \/ \E l \in LeagueIDs, s \in Seasons : CallCalculate(1, l, s)
    \/ \E f \in 1..(Len(tblfixtures) + 1) : CallUpdateForFixture(1, f)
    \/ \E o \in Outcomes : FixtureLookup(1, o)
    \/ \E o \in Outcomes : LeagueLookup(1, o)
    \/ \E o \in Outcomes : FixturesRead(1, o)
    \/ \E o \in Outcomes : ResultsRead(1, o)
    \/ \E o \in Outcomes : StandingsRead(1, o)
    \/ \E o \in Outcomes : WriteDone(1, o)
    \/ \E f \in DOMAIN tblfixtures, st \in {Cancelled, Abandoned} : MarkFixture(f, st)

Spec == Init /\ [][Next]_vars

\* ------------------------------------------------- the admin operations
\* Fixture 1 of league 1 is Completed with a result; fixture 2 of league 2 is
\* Scheduled without one. No standings are stored yet.
InitUI ==
    /\ InitEngine
    /\ \E s \in Seasons :
           tblleagues = <<LeagueRow(1, FallbackSeason), LeagueRow(2, s)>>
    /\ tblfixtures = <<FixtureRow(1, 1, Completed), FixtureRow(2, 2, Scheduled)>>
    /\ tblresults = <<ResultRow(1, 1, 20, 13, FourTries, ThreeTries)>>

\* One admin at a time submits the result form or starts the bulk
\* recalculation; the engine calls the handlers make run to their return
\* between the handler's steps. The engine's lookups and fixtures read may
\* fail or be rejected and its standings write may be rejected; its other
\* requests return 200.
NextUI ==
    \/ \E component \in Components, f \in DOMAIN tblfixtures, st \in Statuses :
           SubmitResult(component, f, st)
    \/ \E o \in Outcomes : StatusOnlyDone(o)
    \/ \E o \in Outcomes : ResultWriteDone(o)
    \/ \E o \in Outcomes : FixtureStatusDone(o)
    \/ StandingsReturned
    \/ RecalculateAll
    \/ \E o \in Outcomes : LeaguesRead(o)
    \/ LeagueCalcReturned
    \/ \E o \in Outcomes : FixtureLookup(1, o)
    \/ LeagueLookup(1, "ok")
    \/ \E o \in Outcomes : FixturesRead(1, o)
    \/ ResultsRead(1, "ok")
    \/ StandingsRead(1, "ok")
    \/ \E o \in {"ok", "throw"} : WriteDone(1, o)

SpecUI == InitUI /\ [][NextUI]_vars

\* ------------------------------------------------- two overlapping calls
\* Two callers (two admin sessions, or a result submission during a bulk
\* recalculation) each make one calculateLeagueStandings call; the awaited
\* requests of the two calls resolve in any order, each with status 200.
NextRace ==
    \/ \E p \in Procs, l \in LeagueIDs, s \in Seasons :
           calls[p].pc = "idle" /\ CallCalculate(p, l, s)
    \/ \E p \in Procs : FixturesRead(p, "ok")
    \/ \E p \in Procs : ResultsRead(p, "ok")
    \/ \E p \in Procs : StandingsRead(p, "ok")
    \/ \E p \in Procs : WriteDone(p, "ok")

SpecRace == Init /\ [][NextRace]_vars

\* ------------------------------------------- calls around the config fetch
\* The module has just been loaded: the config fetch is pending and
\* CURRENT_SEASON holds the fallback. League 2 is of the fallback season or of
\* another one.
InitConfig ==
    /\ ui = IdleUI
    /\ configFetch = PendingFetch
    /\ CURRENT_SEASON = FallbackSeason
    /\ tblstandings = <<>>
    /\ nextId = 1
    /\ calls = [p \in Procs |-> IdleCall]
    /\ ncalls = 0
    /\ lastRun = 0
    /\ \E s \in Seasons :
           tblleagues = <<LeagueRow(1, FallbackSeason), LeagueRow(2, s)>>
    /\ tblfixtures = <<FixtureRow(1, 1, Completed), FixtureRow(2, 2, Completed)>>
    /\ tblresults = <<ResultRow(1, 1, 20, 13, FourTries, ThreeTries),
                      ResultRow(2, 2, 13, 13, ThreeTries, NullScorers)>>

\* The fetch resolves or fails at any moment between the steps of two engine
\* calls, each entered through either operation; every crudRequest returns 200.
NextConfig ==
    \/ \E s \in ConfigSeasons : ConfigLoaded(s)
    \/ ConfigFailed
    \/ \E p \in Procs, l \in LeagueIDs, s \in Seasons :
           calls[p].pc = "idle" /\ CallCalculate(p, l, s)
    \/ \E p \in Procs, f \in DOMAIN tblfixtures :
           calls[p].pc = "idle" /\ CallUpdateForFixture(p, f)
    \/ \E p \in Procs : FixtureLookup(p, "ok")
    \/ \E p \in Procs : LeagueLookup(p, "ok")
    \/ \E p \in Procs : FixturesRead(p, "ok")
    \/ \E p \in Procs : ResultsRead(p, "ok")
    \/ \E p \in Procs : StandingsRead(p, "ok")
    \/ \E p \in Procs : WriteDone(p, "ok")

SpecConfig == InitConfig /\ [][NextConfig]_vars

\* ------------------------------------------- aggregation over drawn inputs
\* Scorelines: margins of 7, 8 and 0, with the home or the away side losing.
ScorePairs == {<<20, 13>>, <<20, 12>>, <<13, 20>>, <<12, 20>>, <<13, 13>>, <<20, 20>>}

\* Stored homeScorers / awayScorers of one result, both decodable.
ScorerPairs ==
    {<<FourTries, ThreeTries>>, <<ThreeTries, FourTries>>, <<FourTries, FourTries>>,
     <<ThreeTries, NullScorers>>}

\* One of the two stored values cannot be decoded to a list; such results
\* come with a home win by 7, an away win by 8 or a draw.
MalformedPairs == {<<FourTries, BadJson>>, <<NotList, FourTries>>}
MalformedScorePairs == {<<20, 13>>, <<12, 20>>, <<13, 13>>}

FixtureCase(leagueID, status, hasResult, scores, scorers) ==
    [leagueID |-> leagueID, status |-> status, hasResult |-> hasResult,
     homeScore |-> scores[1], awayScore |-> scores[2],
     homeScorers |-> scorers[1], awayScorers |-> scorers[2]]

\* A league-1 fixture that is Completed and has a result; a fixture that is
\* not Completed but has a result row; a Completed fixture of league 2; a
\* Completed fixture without a result.
FixtureCases ==
    {FixtureCase(1, Completed, TRUE, sp, pr) : sp \in ScorePairs, pr \in ScorerPairs}
    \cup {FixtureCase(1, Completed, TRUE, sp, pr) :
              sp \in MalformedScorePairs, pr \in MalformedPairs}
    \cup {FixtureCase(1, st, TRUE, <<20, 12>>, <<FourTries, FourTries>>) :
              st \in {Scheduled, Cancelled}}
    \cup {FixtureCase(2, Completed, TRUE, <<20, 12>>, <<FourTries, FourTries>>),
          FixtureCase(1, Completed, FALSE, <<0, 0>>, <<NullScorers, NullScorers>>)}

\* The tblresults rows of the fixtures f..MaxFixtures that have a result.
RECURSIVE ResultRowsOf(_, _)
ResultRowsOf(cases, f) ==
    IF f > MaxFixtures THEN <<>>
    ELSE (IF cases[f].hasResult
          THEN <<ResultRow(f, f, cases[f].homeScore, cases[f].awayScore,
                           cases[f].homeScorers, cases[f].awayScorers)>>
          ELSE <<>>) \o ResultRowsOf(cases, f + 1)

InitAgg ==
    /\ InitEngine
    /\ tblleagues = <<LeagueRow(1, FallbackSeason), LeagueRow(2, FallbackSeason)>>
    /\ \E cases \in [FixtureIDs -> FixtureCases] :
           /\ tblfixtures = [f \in FixtureIDs |->
                                FixtureRow(f, cases[f].leagueID, cases[f].status)]
           /\ tblresults = ResultRowsOf(cases, 1)

\* One recalculation of league 1 with every crudRequest returning 200.
NextAgg ==
    \/ ncalls = 0 /\ CallCalculate(1, 1, FallbackSeason)
    \/ FixturesRead(1, "ok")
    \/ ResultsRead(1, "ok")
    \/ StandingsRead(1, "ok")
    \/ WriteDone(1, "ok")

SpecAgg == InitAgg /\ [][NextAgg]_vars

\* ------------------------------------------------------------------ claims
Last(s) == s[Len(s)]

IsWrite(op) == op \in {"create", "update"}

\* C1: a clean run for a league, directly after a clean run for the same
\* league with fixtures and results unchanged, leaves tblstandings exactly as
\* the first run left it: same rows, same ids, same values.
C1_Idempotent ==
    \A p \in Procs :
        LET c == calls[p]
        IN  (/\ c.pc = "done"
             /\ c.ret = Ret(TRUE, UpdatedMessage)
             /\ AllOk(c)
             /\ c.prev = c.leagueID)
            => tblstandings = c.before

C1_Witness ==
    \E p \in Procs :
        LET c == calls[p]
        IN  /\ c.pc = "done"
            /\ c.ret = Ret(TRUE, UpdatedMessage)
            /\ AllOk(c)
            /\ c.prev = c.leagueID
            /\ Len(c.sortedTeams) >= 2
            /\ \E i \in DOMAIN c.log : c.log[i].op = "update"
            /\ \E i \in DOMAIN tblstandings : tblstandings[i].points > 0

\* C2: tblstandings has at most one row per (leagueID, teamID), whatever the
\* outcome of each crudRequest.
C2_OneRowPerTeam ==
    \A i, j \in DOMAIN tblstandings :
        (/\ tblstandings[i].leagueID = tblstandings[j].leagueID
         /\ tblstandings[i].teamID = tblstandings[j].teamID) => i = j

\* C3: calculateLeagueStandings with a season other than the current one
\* returns success 'Not current season', has issued no crudRequest and
\* leaves tblstandings as it was.
C3_SeasonGate ==
    \A p \in Procs :
        LET c == calls[p]
        IN  (/\ c.entry = "calculateLeagueStandings"
             /\ c.leagueSeason # CURRENT_SEASON)
            => /\ c.pc = "done"
               /\ c.ret = Ret(TRUE, NotCurrentSeason)
               /\ c.log = <<>>
               /\ c.request = NoRequest
               /\ tblstandings = c.before

C3_Witness ==
    \E p \in Procs :
        LET c == calls[p]
        IN  /\ c.entry = "calculateLeagueStandings"
            /\ c.leagueSeason # CURRENT_SEASON
            /\ c.pc = "done"
            /\ tblstandings # <<>>

\* The read of tblfixtures or tblresults inside calculateLeagueStandings that
\* did not return status_code 200, as a log position.
FailedInputRead(c, i) ==
    /\ c.log[i].at \in {"awaitFixtures", "awaitResults"}
    /\ c.log[i].outcome # "ok"

FailureMessage(entry) ==
    IF entry.outcome = "throw" THEN ThrownMessage
    ELSE IF entry.table = "tblfixtures" THEN "Failed to fetch fixtures"
    ELSE "Failed to fetch results"

\* C9: when the fixtures read or the results read fails (non-200 or thrown),
\* the call ends there with success:false and the error's message, and no
\* create or update was issued on tblstandings.
C9_InputReadFailureAborts ==
    \A p \in Procs :
        LET c == calls[p]
        IN  \A i \in DOMAIN c.log :
                FailedInputRead(c, i)
                => /\ i = Len(c.log)
                   /\ c.pc = "done"
                   /\ c.ret = Ret(FALSE, FailureMessage(c.log[i]))
                   /\ \A j \in DOMAIN c.log : ~IsWrite(c.log[j].op)
                   /\ ~IsWrite(c.request.op)
                   /\ tblstandings = c.before

C9_Witness ==
    \E p \in Procs :
        LET c == calls[p]
        IN  /\ c.log # <<>>
            /\ FailedInputRead(c, Len(c.log))
            /\ Last(c.log).at = "awaitResults"
            /\ c.leagueFixtures # <<>>
            /\ tblstandings # <<>>

\* C10: a call that returns success:false has left tblstandings as it was
\* when the call started.
C10_FailureMeansNoChange ==
    \A p \in Procs :
        LET c == calls[p]
        IN  (c.pc = "done" /\ ~c.ret.success) => tblstandings = c.before

\* ---- the ranked list against the stored fixtures and results (SpecAgg)
RECURSIVE SumOver(_, _)
SumOver(S, fn) ==
    IF S = {} THEN 0
    ELSE LET x == CHOOSE y \in S : TRUE IN fn[x] + SumOver(S \ {x}, fn)

HasResult(f) == \E i \in DOMAIN tblresults : tblresults[i].fixtureID = tblfixtures[f].id

StoredResult(f) ==
    tblresults[CHOOSE i \in DOMAIN tblresults : tblresults[i].fixtureID = tblfixtures[f].id]

\* Fixtures of league L with status Completed that have a Result.
Contributing(L) ==
    {f \in DOMAIN tblfixtures :
        /\ tblfixtures[f].leagueID = L
        /\ tblfixtures[f].status = Completed
        /\ HasResult(f)}

Plays(f, t) == tblfixtures[f].homeTeam = t \/ tblfixtures[f].awayTeam = t

MatchesOf(L, t) == {f \in Contributing(L) : Plays(f, t)}

ScoreFor(f, t) ==
    IF tblfixtures[f].homeTeam = t THEN StoredResult(f).homeScore
    ELSE StoredResult(f).awayScore

ScoreAgainst(f, t) ==
    IF tblfixtures[f].homeTeam = t THEN StoredResult(f).awayScore
    ELSE StoredResult(f).homeScore

OwnScorers(f, t) ==
    IF tblfixtures[f].homeTeam = t THEN StoredResult(f).homeScorers
    ELSE StoredResult(f).awayScorers

WinsOf(L, t)   == {f \in MatchesOf(L, t) : ScoreFor(f, t) > ScoreAgainst(f, t)}
LossesOf(L, t) == {f \in MatchesOf(L, t) : ScoreFor(f, t) < ScoreAgainst(f, t)}
DrawsOf(L, t)  == {f \in MatchesOf(L, t) : ScoreFor(f, t) = ScoreAgainst(f, t)}

\* Defeats by 7 points or fewer.
NarrowLossesOf(L, t) ==
    {f \in LossesOf(L, t) : ScoreAgainst(f, t) - ScoreFor(f, t) <= 7}

\* The team's own scorer list is a list with at least 4 'try' entries.
HasFourTries(f, t) ==
    /\ OwnScorers(f, t).kind = "list"
    /\ Cardinality({i \in DOMAIN OwnScorers(f, t).types :
                       OwnScorers(f, t).types[i] = "try"}) >= 4

FourTryMatchesOf(L, t) == {f \in MatchesOf(L, t) : HasFourTries(f, t)}

\* The call whose ranked list is looked at, once it has returned; the list is
\* built before the first standings request and not touched afterwards.
Ranked == calls[1].sortedTeams
RankedLeague == calls[1].leagueID
HasRanked == calls[1].computed /\ calls[1].pc = "done"

\* C4: the ranked list is ordered by points, then pointsDifference, then
\* pointsFor, all descending; positions are 1..n in list order; the list has
\* exactly one entry per team of the league's Completed fixtures.
C4_Ranking ==
    HasRanked =>
        /\ \A i \in 1..(Len(Ranked) - 1) :
               LET a == Ranked[i]
                   b == Ranked[i + 1]
               IN  \/ a.points > b.points
                   \/ a.points = b.points /\ a.pointsDifference > b.pointsDifference
                   \/ /\ a.points = b.points
                      /\ a.pointsDifference = b.pointsDifference
                      /\ a.pointsFor >= b.pointsFor
        /\ \A i \in DOMAIN Ranked : Ranked[i].position = i
        /\ \A i, j \in DOMAIN Ranked : Ranked[i].teamID = Ranked[j].teamID => i = j
        /\ {Ranked[i].teamID : i \in DOMAIN Ranked}
               = {t \in TeamIDs : \E f \in DOMAIN tblfixtures :
                                     /\ tblfixtures[f].leagueID = RankedLeague
                                     /\ tblfixtures[f].status = Completed
                                     /\ Plays(f, t)}

\* Three teams; the last two are level on points and difference and are
\* separated by pointsFor, against the order of their ids.
C4_Witness ==
    /\ HasRanked
    /\ Len(Ranked) >= 3
    /\ \E i \in 1..(Len(Ranked) - 1) :
           /\ Ranked[i].points = Ranked[i + 1].points
           /\ Ranked[i].pointsDifference = Ranked[i + 1].pointsDifference
           /\ Ranked[i].pointsFor > Ranked[i + 1].pointsFor
           /\ Ranked[i].teamID > Ranked[i + 1].teamID
    /\ \E i \in 1..(Len(Ranked) - 1) : Ranked[i].points > Ranked[i + 1].points

\* C5: won counts the victories and lost the defeats; the losing bonus is
\* one bonusPoint and one point for each defeat by 7 or fewer and nothing
\* for a larger one, for the home and the away side alike (read on teams
\* that have no 4-try match, so that every bonus point is a losing bonus).
C5_LosingBonus ==
    HasRanked =>
        \A i \in DOMAIN Ranked :
            LET r == Ranked[i]
                t == r.teamID
                L == RankedLeague
            IN  /\ r.won = Cardinality(WinsOf(L, t))
                /\ r.lost = Cardinality(LossesOf(L, t))
                /\ FourTryMatchesOf(L, t) = {}
                   => /\ r.bonusPoints = Cardinality(NarrowLossesOf(L, t))
                      /\ r.points = 4 * Cardinality(WinsOf(L, t))
                                    + 2 * Cardinality(DrawsOf(L, t))
                                    + Cardinality(NarrowLossesOf(L, t))

\* One team loses away by 7 and at home by 8, without a 4-try match.
C5_Witness ==
    /\ HasRanked
    /\ \E i \in DOMAIN Ranked :
           LET t == Ranked[i].teamID
               L == RankedLeague
           IN  /\ FourTryMatchesOf(L, t) = {}
               /\ \E f \in LossesOf(L, t) :
                      /\ tblfixtures[f].awayTeam = t
                      /\ ScoreAgainst(f, t) - ScoreFor(f, t) = 7
               /\ \E f \in LossesOf(L, t) :
                      /\ tblfixtures[f].homeTeam = t
                      /\ ScoreAgainst(f, t) - ScoreFor(f, t) = 8
               /\ Ranked[i].bonusPoints = 1

\* C6: every match in which the team's own scorer list has at least 4 tries
\* brings one bonusPoint and one point, whatever the outcome and on top of
\* any losing bonus.
C6_TryBonus ==
    HasRanked =>
        \A i \in DOMAIN Ranked :
            LET r == Ranked[i]
                t == r.teamID
                L == RankedLeague
            IN  /\ r.bonusPoints = Cardinality(NarrowLossesOf(L, t))
                                   + Cardinality(FourTryMatchesOf(L, t))
                /\ r.points = 4 * Cardinality(WinsOf(L, t))
                              + 2 * Cardinality(DrawsOf(L, t))
                              + r.bonusPoints

\* C7: played counts the Completed fixtures of the league that have a Result
\* and involve the team; pointsFor and pointsAgainst sum their scores; no
\* other fixture moves a counter.
C7_OnlyContributing ==
    HasRanked =>
        \A i \in DOMAIN Ranked :
            LET r == Ranked[i]
                t == r.teamID
                M == MatchesOf(RankedLeague, t)
                For == [f \in M |-> ScoreFor(f, t)]
                Against == [f \in M |-> ScoreAgainst(f, t)]
            IN  /\ r.played = Cardinality(M)
                /\ r.won + r.drawn + r.lost = r.played
                /\ r.pointsFor = SumOver(M, For)
                /\ r.pointsAgainst = SumOver(M, Against)
                /\ r.pointsDifference = SumOver(M, For) - SumOver(M, Against)
                /\ r.bonusPoints <= 2 * r.played
                /\ r.points = 4 * r.won + 2 * r.drawn + r.bonusPoints

\* A ranked team also plays in a fixture that has a result but is Cancelled,
\* and a team is ranked with played = 0.
C7_Witness ==
    /\ HasRanked
    /\ \E i \in DOMAIN Ranked :
           /\ Ranked[i].played = 1
           /\ \E f \in DOMAIN tblfixtures :
                  /\ Plays(f, Ranked[i].teamID)
                  /\ tblfixtures[f].status = Cancelled
                  /\ tblfixtures[f].leagueID = RankedLeague
                  /\ HasResult(f)

\* C8: drawn counts the level matches; a team whose matches are all level
\* has no win, no defeat, 2 points per match and, without a 4-try match, no
\* bonus point.
C8_Draw ==
    HasRanked =>
        \A i \in DOMAIN Ranked :
            LET r == Ranked[i]
                t == r.teamID
                L == RankedLeague
            IN  /\ r.drawn = Cardinality(DrawsOf(L, t))
                /\ (DrawsOf(L, t) = MatchesOf(L, t) /\ FourTryMatchesOf(L, t) = {})
                   => /\ r.won = 0
                      /\ r.lost = 0
                      /\ r.bonusPoints = 0
                      /\ r.points = 2 * Cardinality(DrawsOf(L, t))

C8_Witness ==
    /\ HasRanked
    /\ \E i \in DOMAIN Ranked :
           LET t == Ranked[i].teamID
               L == RankedLeague
           IN  /\ Cardinality(DrawsOf(L, t)) = 2
               /\ FourTryMatchesOf(L, t) = {}
               /\ Ranked[i].points = 4

\* ---- the persistence loop, request by request (Spec)
\* The creates and updates of the call that have resolved, in loop order: the
\* k-th one is the write for sortedTeams[k].
WriteLog(c) == SelectSeq(c.log, LAMBDA e : e.at = "awaitWrite")

\* The standings reads of the loop that have resolved.
StandingsReadLog(c) == SelectSeq(c.log, LAMBDA e : e.at = "awaitStandings")

\* C11: when the create or update of one team fails (non-200 or thrown), the
\* call still issues the create or update of every remaining team of the
\* ranked list: a returned call whose standings reads all came back has one
\* write per ranked team.
C11_WriteFailureDoesNotAbort ==
    \A p \in Procs :
        LET c == calls[p]
        IN  (/\ c.pc = "done"
             /\ c.computed
             /\ \E k \in DOMAIN WriteLog(c) : WriteLog(c)[k].outcome # "ok"
             /\ \A k \in DOMAIN StandingsReadLog(c) :
                    StandingsReadLog(c)[k].outcome # "throw")
            => Len(WriteLog(c)) = Len(c.sortedTeams)

\* No crudRequest of the call was rejected: each returned a status_code.
NoThrow(c) == \A i \in DOMAIN c.log : c.log[i].outcome # "throw"

\* C12: once fixtures and results were read with status 200 for a league of
\* the current season, the call returns success 'Standings updated
\* successfully' after one standings read and one write per ranked team,
\* whatever status codes those reads, creates and updates returned.
C12_SuccessWhateverStatus ==
    \A p \in Procs :
        LET c == calls[p]
        IN  (c.pc = "done" /\ c.computed /\ NoThrow(c))
            => /\ c.ret = Ret(TRUE, UpdatedMessage)
               /\ Len(StandingsReadLog(c)) = Len(c.sortedTeams)
               /\ Len(WriteLog(c)) = Len(c.sortedTeams)

\* A returned call over two teams with a non-200 standings read and a
\* non-200 write.
C12_Witness ==
    \E p \in Procs :
        LET c == calls[p]
        IN  /\ c.pc = "done"
            /\ c.computed
            /\ NoThrow(c)
            /\ Len(c.sortedTeams) >= 2
            /\ \E k \in DOMAIN StandingsReadLog(c) :
                   StandingsReadLog(c)[k].outcome = "fail"
            /\ \E k \in DOMAIN WriteLog(c) : WriteLog(c)[k].outcome = "fail"
            /\ c.ret.success

\* The call returned 'Standings updated successfully', every crudRequest of it
\* returned 200 and no fixture changed while it ran.
ReturnedClean(c) ==
    /\ c.pc = "done"
    /\ c.ret = Ret(TRUE, UpdatedMessage)
    /\ AllOk(c)
    /\ c.stable

\* The totals the call computed for a team: its entry of the ranked list, or
\* all zero for a team of no Completed fixture of the league.
FreshTotals(c, teamID) ==
    LET hits == {i \in DOMAIN c.sortedTeams : c.sortedTeams[i].teamID = teamID}
    IN  IF hits = {} THEN ZeroStanding(teamID)
        ELSE c.sortedTeams[CHOOSE i \in hits : TRUE]

\* C13: after a clean call for league L, every tblstandings row of L equals
\* the totals freshly computed from L's Completed fixtures with results, and
\* the row of a team that is in no Completed fixture of L any more is all zero.
C13_EveryRowRefreshed ==
    \A p \in Procs :
        LET c == calls[p]
        IN  ReturnedClean(c)
            => \A i \in DOMAIN tblstandings :
                   tblstandings[i].leagueID = c.leagueID
                   => tblstandings[i]
                      = RowOf(tblstandings[i].id,
                              standingDataOf(c.leagueID,
                                             FreshTotals(c, tblstandings[i].teamID)))

\* ---- overlapping calls (SpecRace)
\* The rows of tblstandings for a (leagueID, teamID) pair.
RowsOfPair(leagueID, teamID) ==
    {i \in DOMAIN tblstandings : /\ tblstandings[i].leagueID = leagueID
                                 /\ tblstandings[i].teamID = teamID}

\* The call found no row for the pair and its create returned 200.
CreatedFor(c, leagueID, teamID) ==
    /\ c.leagueID = leagueID
    /\ \E k \in DOMAIN WriteLog(c) :
           /\ WriteLog(c)[k].op = "create"
           /\ WriteLog(c)[k].outcome = "ok"
           /\ c.sortedTeams[k].teamID = teamID

\* C14: nothing serializes two calls for the same league: each call that
\* found no row for a pair at its standings read has its create carried out,
\* so when the reads of both calls precede both creates the pair ends with
\* two rows (one row per call that created for it).
C14_CheckThenActRace ==
    \A l \in LeagueIDs, t \in TeamIDs :
        Cardinality(RowsOfPair(l, t))
            = Cardinality({p \in Procs : CreatedFor(calls[p], l, t)})

\* Both calls returned cleanly and a pair of their league has two rows.
C14_Witness ==
    /\ \A p \in Procs : ReturnedClean(calls[p])
    /\ calls[1].leagueID = calls[2].leagueID
    /\ \E t \in TeamIDs :
           /\ Cardinality(RowsOfPair(calls[1].leagueID, t)) = 2
           /\ \A p \in Procs : CreatedFor(calls[p], calls[1].leagueID, t)

\* ---- the per-fixture entry point (Spec)
\* calculateLeagueStandings was entered by the call (its gate was evaluated).
Delegated(c) == c.gate # ""

NoFixtureWithId(id) == \A i \in DOMAIN tblfixtures : tblfixtures[i].id # id

\* The fixture exists and tblleagues has no row for its leagueID.
NoLeagueOfFixture(id) ==
    \E i \in DOMAIN tblfixtures :
        /\ tblfixtures[i].id = id
        /\ \A j \in DOMAIN tblleagues : tblleagues[j].id # tblfixtures[i].leagueID

\* The call ended in updateStandingsForFixture's own catch, having issued
\* exactly n reads.
EndedInLookup(c, n, message) ==
    /\ c.pc = "done"
    /\ c.ret = Ret(FALSE, message)
    /\ Len(c.log) = n
    /\ ~Delegated(c)
    /\ tblstandings = c.before

\* C15: updateStandingsForFixture returns success:false 'Fixture not found'
\* when no fixture has the id and 'League not found' when the fixture's
\* league has no row; in both cases, and when the fixtures or the leagues
\* read fails, calculateLeagueStandings is not entered and tblstandings is
\* not written.
C15_NotFound ==
    \A p \in Procs :
        LET c == calls[p]
        IN  c.entry = "updateStandingsForFixture"
            => /\ (Len(c.log) >= 1 /\ c.log[1].outcome = "ok"
                       /\ NoFixtureWithId(c.fixtureID))
                  => EndedInLookup(c, 1, "Fixture not found")
               /\ (Len(c.log) >= 2 /\ c.log[2].outcome = "ok"
                       /\ NoLeagueOfFixture(c.fixtureID))
                  => EndedInLookup(c, 2, "League not found")
               /\ (Len(c.log) >= 1 /\ c.log[1].outcome # "ok")
                  => EndedInLookup(c, 1, IF c.log[1].outcome = "throw"
                                         THEN ThrownMessage
                                         ELSE "Failed to fetch fixture")
               /\ (Len(c.log) >= 2 /\ c.log[2].outcome # "ok")
                  => EndedInLookup(c, 2, IF c.log[2].outcome = "throw"
                                         THEN ThrownMessage
                                         ELSE "Failed to fetch leagues")

\* 'League not found' is returned while tblstandings holds rows of an
\* earlier recalculation.
C15_Witness ==
    \E p \in Procs :
        LET c == calls[p]
        IN  /\ c.entry = "updateStandingsForFixture"
            /\ NoLeagueOfFixture(c.fixtureID)
            /\ c.ret.message = "League not found"
            /\ tblstandings # <<>>

\* The league row of the fixture with the given id has this id and season.
LeagueOfFixtureIs(fixtureID, leagueID, leagueSeason) ==
    \E i \in DOMAIN tblfixtures, j \in DOMAIN tblleagues :
        /\ tblfixtures[i].id = fixtureID
        /\ tblfixtures[i].leagueID = leagueID
        /\ tblleagues[j].id = leagueID
        /\ tblleagues[j].leagueSeason = leagueSeason

\* C16: updateStandingsForFixture hands calculateLeagueStandings the season
\* stored on the fixture's league; when that season is not the current one
\* the call returns success 'Not current season' after its two lookups and
\* tblstandings is as it was; every create or update such a call issues is
\* for a league of the current season.
C16_FixtureEntryGate ==
    \A p \in Procs :
        LET c == calls[p]
        IN  (c.entry = "updateStandingsForFixture" /\ Delegated(c))
            => /\ LeagueOfFixtureIs(c.fixtureID, c.leagueID, c.leagueSeason)
               /\ c.leagueSeason # CURRENT_SEASON
                  => /\ c.pc = "done"
                     /\ c.ret = Ret(TRUE, NotCurrentSeason)
                     /\ Len(c.log) = 2
                     /\ tblstandings = c.before
               /\ IsWrite(c.request.op)
                  => \E j \in DOMAIN tblleagues :
                         /\ tblleagues[j].id = c.request.data.leagueID
                         /\ tblleagues[j].leagueSeason = CURRENT_SEASON

\* The fixture of an earlier-season league is submitted while tblstandings
\* holds rows.
C16_Witness ==
    \E p \in Procs :
        LET c == calls[p]
        IN  /\ c.entry = "updateStandingsForFixture"
            /\ Delegated(c)
            /\ c.leagueSeason # CURRENT_SEASON
            /\ c.ret = Ret(TRUE, NotCurrentSeason)
            /\ tblstandings # <<>>

\* ---- malformed scorer data (SpecAgg)
\* The stored value is not JSON, or decodes to something that is not a list.
Malformed(field) == field.kind \in {"badjson", "notlist"}

HasMalformed(f) ==
    Malformed(StoredResult(f).homeScorers) \/ Malformed(StoredResult(f).awayScorers)

\* C17: with a Result whose homeScorers or awayScorers cannot be decoded among
\* the league's contributing fixtures, the call still returns 'Standings
\* updated successfully' with a row written per ranked team, and every
\* contributing fixture, the malformed one and those after it, is in played,
\* won, drawn, lost, pointsFor, pointsAgainst, pointsDifference and in the
\* win, draw and losing-bonus points.
C17_MalformedNeverAborts ==
    (HasRanked /\ \E f \in Contributing(RankedLeague) : HasMalformed(f))
    => /\ calls[1].ret = Ret(TRUE, UpdatedMessage)
       /\ \A i \in DOMAIN Ranked :
              LET r == Ranked[i]
                  t == r.teamID
                  L == RankedLeague
                  M == MatchesOf(L, t)
                  For == [f \in M |-> ScoreFor(f, t)]
                  Against == [f \in M |-> ScoreAgainst(f, t)]
                  base == 4 * Cardinality(WinsOf(L, t))
                          + 2 * Cardinality(DrawsOf(L, t))
                          + Cardinality(NarrowLossesOf(L, t))
              IN  /\ r.played = Cardinality(M)
                  /\ r.won = Cardinality(WinsOf(L, t))
                  /\ r.drawn = Cardinality(DrawsOf(L, t))
                  /\ r.lost = Cardinality(LossesOf(L, t))
                  /\ r.pointsFor = SumOver(M, For)
                  /\ r.pointsAgainst = SumOver(M, Against)
                  /\ r.pointsDifference = r.pointsFor - r.pointsAgainst
                  /\ r.bonusPoints >= Cardinality(NarrowLossesOf(L, t))
                  /\ r.points >= base
                  /\ r.points - base = r.bonusPoints - Cardinality(NarrowLossesOf(L, t))
                  /\ \E j \in DOMAIN tblstandings :
                         tblstandings[j]
                             = RowOf(tblstandings[j].id, standingDataOf(L, r))

\* A team loses narrowly in a fixture with a malformed list and plays a
\* later fixture of the league as well.
C17_Witness ==
    /\ HasRanked
    /\ \E i \in DOMAIN Ranked :
           LET t == Ranked[i].teamID
               L == RankedLeague
           IN  \E f1, f2 \in MatchesOf(L, t) :
                   /\ f1 < f2
                   /\ HasMalformed(f1)
                   /\ f1 \in NarrowLossesOf(L, t)
                   /\ Ranked[i].played = 2
                   /\ Ranked[i].bonusPoints >= 1

OpponentScorers(f, t) ==
    IF tblfixtures[f].homeTeam = t THEN StoredResult(f).awayScorers
    ELSE StoredResult(f).homeScorers

\* Matches in which the team's own list has at least 4 tries and the other
\* team's list cannot be decoded.
FourTriesAgainstMalformed(L, t) ==
    {f \in FourTryMatchesOf(L, t) : Malformed(OpponentScorers(f, t))}

\* C18: a scorer list that cannot be decoded counts as empty for its own
\* team only: the other team of the fixture, with a valid list of at least 4
\* tries, still gets its try bonus (one bonusPoint and one point) on top of
\* its match points and losing bonus.
C18_OtherTeamKeepsTryBonus ==
    HasRanked =>
        \A i \in DOMAIN Ranked :
            LET r == Ranked[i]
                t == r.teamID
                L == RankedLeague
                bonus == Cardinality(NarrowLossesOf(L, t))
                         + Cardinality(FourTriesAgainstMalformed(L, t))
            IN  /\ r.bonusPoints >= bonus
                /\ r.points >= 4 * Cardinality(WinsOf(L, t))
                               + 2 * Cardinality(DrawsOf(L, t)) + bonus

\* ---- the current-season value (SpecConfig)
\* The fetch failed, or the fetched config has no currentSeason.
NoSeasonConfigured ==
    \/ configFetch.fetch = "failed"
    \/ configFetch.fetch = "loaded" /\ configFetch.currentSeason = NoCurrentSeason

\* The call went through the gate and, if it has returned, returned
\* 'Standings updated successfully' with a row stored per ranked team.
ComputedNormally(c) ==
    /\ c.ret.message # NotCurrentSeason
    /\ c.pc = "done"
       => /\ c.ret = Ret(TRUE, UpdatedMessage)
          /\ \A i \in DOMAIN c.sortedTeams :
                 RowsOfPair(c.leagueID, c.sortedTeams[i].teamID) # {}

\* C19: when the config fetch fails or the config has no currentSeason,
\* CURRENT_SEASON stays '2025-26', no engine call returns success:false, and
\* a recalculation of a league of season '2025-26' passes the gate and is
\* computed.
C19_ConfigFallback ==
    NoSeasonConfigured
    => /\ CURRENT_SEASON = FallbackSeason
       /\ \A p \in Procs :
              LET c == calls[p]
              IN  /\ c.pc = "done" => c.ret.success
                  /\ (Delegated(c) /\ c.leagueSeason = FallbackSeason)
                     => ComputedNormally(c)

\* The config came without currentSeason and a league of season '2025-26'
\* has been recalculated and stored.
C19_Witness ==
    /\ configFetch = LoadedFetch(NoCurrentSeason)
    /\ \E p \in Procs :
           LET c == calls[p]
           IN  /\ c.entry = "calculateLeagueStandings"
               /\ c.leagueSeason = FallbackSeason
               /\ c.ret = Ret(TRUE, UpdatedMessage)
               /\ Len(c.sortedTeams) >= 2
               /\ RowsOfPair(c.leagueID, c.sortedTeams[1].teamID) # {}

\* The call was skipped at the gate: 'Not current season', no crudRequest.
Skipped(c) ==
    /\ c.pc = "done"
    /\ c.ret = Ret(TRUE, NotCurrentSeason)
    /\ \A i \in DOMAIN c.log : c.log[i].at \in {"awaitFixture", "awaitLeague"}
    /\ c.request = NoRequest

\* While the fetch is pending the value is the fallback and every gate
\* evaluated so far used it; once the config is loaded the value is its
\* currentSeason. A call whose league season differs from the value its gate
\* saw is skipped; the others are computed.
GateAgainstValueOfTheMoment ==
    /\ configFetch.fetch = "pending"
       => /\ CURRENT_SEASON = FallbackSeason
          /\ \A p \in Procs : Delegated(calls[p]) => calls[p].gate = FallbackSeason
    /\ (configFetch.fetch = "loaded" /\ configFetch.currentSeason # NoCurrentSeason)
       => CURRENT_SEASON = configFetch.currentSeason
    /\ \A p \in Procs :
           LET c == calls[p]
           IN  Delegated(c)
               => /\ c.gate \in {FallbackSeason, CURRENT_SEASON}
                  /\ c.leagueSeason # c.gate => Skipped(c)
                  /\ c.leagueSeason = c.gate => ComputedNormally(c)

\* A step that changes CURRENT_SEASON is the resolution of the pending fetch
\* and touches no engine call.
SeasonWrittenOnlyByFetch ==
    CURRENT_SEASON' # CURRENT_SEASON
    => /\ configFetch.fetch = "pending"
       /\ configFetch'.fetch = "loaded"
       /\ CURRENT_SEASON' = configFetch'.currentSeason
       /\ UNCHANGED <<calls, tblstandings>>

\* C20: CURRENT_SEASON changes at most once, when the config fetch resolves,
\* and no engine operation writes it; a call whose gate is evaluated before
\* that is gated against '2025-26', so a league of the configured season S
\* (S not the fallback) is skipped with 'Not current season' and no request,
\* while the same call after the fetch resolved is computed.
C20_StartupRace ==
    /\ []GateAgainstValueOfTheMoment
    /\ [][SeasonWrittenOnlyByFetch]_vars

\* The league of the configured season was skipped by the call made before
\* the fetch resolved and is computed and stored by the call made after it.
C20_Witness ==
    /\ configFetch.fetch = "loaded"
    /\ CURRENT_SEASON # FallbackSeason
    /\ calls[1].leagueID = calls[2].leagueID
    /\ calls[1].leagueSeason = CURRENT_SEASON
    /\ calls[1].gate = FallbackSeason
    /\ Skipped(calls[1])
    /\ calls[2].gate = CURRENT_SEASON
    /\ calls[2].ret = Ret(TRUE, UpdatedMessage)
    /\ \E i \in DOMAIN tblstandings : tblstandings[i].leagueID = calls[2].leagueID

\* ---- what the engine sends to the data store (Spec)
\* The columns of a standings payload.
PayloadFields ==
    {"leagueID", "teamID", "played", "won", "drawn", "lost", "pointsFor",
     "pointsAgainst", "pointsDifference", "bonusPoints", "points"}

\* C21: every crudRequest of the engine is a read, a create or an update,
\* never a delete; a create or update payload for tblstandings has exactly
\* the eleven standing columns and no position, which only the entries of
\* the in-memory ranked list carry.
C21_NoDeleteNoPosition ==
    \A p \in Procs :
        LET c == calls[p]
        IN  /\ c.request.op \in {"none", "read", "create", "update"}
            /\ \A i \in DOMAIN c.log : c.log[i].op \in {"read", "create", "update"}
            /\ IsWrite(c.request.op)
               => /\ c.request.table = "tblstandings"
                  /\ DOMAIN c.request.data = PayloadFields
            /\ \A i \in DOMAIN c.sortedTeams : c.sortedTeams[i].position = i
            /\ Len(tblstandings) >= Len(c.before)

\* The create for the team ranked second is in flight.
C21_Witness ==
    \E p \in Procs :
        LET c == calls[p]
        IN  /\ c.pc = "awaitWrite"
            /\ c.request.op = "create"
            /\ c.idx = 2
            /\ c.sortedTeams[c.idx].position = 2
            /\ tblstandings # <<>>

\* ---- the payloads against the stored fixtures and results (SpecAgg)
\* The standings payloads of the call: the one in flight and the rows stored.
PayloadOk(Ok(_)) ==
    /\ \A p \in Procs : IsWrite(calls[p].request.op) => Ok(calls[p].request.data)
    /\ \A i \in DOMAIN tblstandings : Ok(tblstandings[i])

DifferenceOk(d) == d.pointsDifference = d.pointsFor - d.pointsAgainst

\* C24: every payload created or updated has pointsDifference = pointsFor -
\* pointsAgainst, and the stored pointsFor and pointsAgainst are the totals
\* over all contributing fixtures of the team in the league.
C24_DifferenceIsCumulative ==
    /\ PayloadOk(DifferenceOk)
    /\ HasRanked
       => \A i \in DOMAIN tblstandings :
              LET r == tblstandings[i]
                  M == MatchesOf(r.leagueID, r.teamID)
                  For == [f \in M |-> ScoreFor(f, r.teamID)]
                  Against == [f \in M |-> ScoreAgainst(f, r.teamID)]
              IN  /\ r.pointsFor = SumOver(M, For)
                  /\ r.pointsAgainst = SumOver(M, Against)
                  /\ r.pointsDifference = SumOver(M, For) - SumOver(M, Against)

\* A stored row of a team with two matches whose difference is not the margin
\* of either match.
C24_Witness ==
    /\ HasRanked
    /\ \E i \in DOMAIN tblstandings :
           LET r == tblstandings[i]
               M == MatchesOf(r.leagueID, r.teamID)
           IN  /\ Cardinality(M) = 2
               /\ r.pointsDifference # 0
               /\ \A f \in M :
                      r.pointsDifference # ScoreFor(f, r.teamID) - ScoreAgainst(f, r.teamID)

RowConsistent(d) ==
    /\ d.played = d.won + d.drawn + d.lost
    /\ d.points = 4 * d.won + 2 * d.drawn + d.bonusPoints

\* C28: every entry of the ranked list, every payload in flight and every
\* stored row has played = won + drawn + lost and points = 4 * won +
\* 2 * drawn + bonusPoints.
C28_RowConsistency ==
    /\ PayloadOk(RowConsistent)
    /\ \A p \in Procs :
           \A i \in DOMAIN calls[p].sortedTeams : RowConsistent(calls[p].sortedTeams[i])

\* A stored row with a win, a defeat and two bonus points.
C28_Witness ==
    \E i \in DOMAIN tblstandings :
        LET r == tblstandings[i]
        IN  /\ r.won = 1
            /\ r.lost = 1
            /\ r.bonusPoints = 2
            /\ r.points = 6

\* The sum of one counter over the ranked list.
RankedSum(field) ==
    SumOver(DOMAIN Ranked, [i \in DOMAIN Ranked |-> Ranked[i][field]])

\* C29: over the teams of one computed table the pointsFor sum to the
\* pointsAgainst, the pointsDifference to 0, the won to the lost, and the
\* played to twice the number of contributing fixtures.
C29_Conservation ==
    HasRanked
    => /\ RankedSum("pointsFor") = RankedSum("pointsAgainst")
       /\ RankedSum("pointsDifference") = 0
       /\ RankedSum("won") = RankedSum("lost")
       /\ RankedSum("played") = 2 * Cardinality(Contributing(RankedLeague))

\* Two contributing fixtures over three teams, one of them an away win.
C29_Witness ==
    /\ HasRanked
    /\ Len(Ranked) = 3
    /\ Cardinality(Contributing(RankedLeague)) = 2
    /\ RankedSum("played") = 4
    /\ \E f \in Contributing(RankedLeague) :
           StoredResult(f).awayScore > StoredResult(f).homeScore

\* ---- the order of the requests of one call (Spec)
\* The resolved requests of calculateLeagueStandings itself, without the two
\* lookups of updateStandingsForFixture.
CalcLog(c) == SelectSeq(c.log, LAMBDA e : e.at \notin {"awaitFixture", "awaitLeague"})

\* C25: the requests of one calculateLeagueStandings call resolve in the
\* order fixtures read, results read, then for each ranked team in turn one
\* standings read followed by exactly one create or update; a request is
\* issued only after the one before it has returned, so at most one request
\* of the call is in flight, and the write in flight is the one of the team
\* at the loop position.
C25_RequestOrder ==
    \A p \in Procs :
        LET c == calls[p]
            g == CalcLog(c)
        IN  /\ \A j \in DOMAIN g :
                   /\ j = 1 => g[j].at = "awaitFixtures" /\ g[j].op = "read"
                   /\ j = 2 => g[j].at = "awaitResults" /\ g[j].op = "read"
                   /\ (j >= 3 /\ j % 2 = 1)
                      => g[j].at = "awaitStandings" /\ g[j].op = "read"
                   /\ (j >= 4 /\ j % 2 = 0)
                      => g[j].at = "awaitWrite" /\ IsWrite(g[j].op)
                   /\ j < Len(g) => g[j].outcome # "throw"
                   /\ (j <= 2 /\ j < Len(g)) => g[j].outcome = "ok"
            /\ Len(g) <= 2 + 2 * Len(c.sortedTeams)
            /\ InFlight(c) <=> c.request # NoRequest
            /\ c.pc = "awaitStandings"
               => /\ Len(g) = 2 * c.idx
                  /\ c.request = Read("tblstandings")
            /\ c.pc = "awaitWrite"
               => /\ Len(g) = 2 * c.idx + 1
                  /\ IsWrite(c.request.op)
                  /\ c.request.data.teamID = c.sortedTeams[c.idx].teamID

\* A returned call over two teams: six requests, the last an update.
C25_Witness ==
    \E p \in Procs :
        LET c == calls[p]
            g == CalcLog(c)
        IN  /\ c.pc = "done"
            /\ c.ret = Ret(TRUE, UpdatedMessage)
            /\ Len(c.sortedTeams) = 2
            /\ Len(g) = 6
            /\ g[4].op = "create"
            /\ g[6].op = "update"

\* ---- the frame of a recalculation (Spec)
\* The step is the resolution of the write of call p: a create appends one
\* row of the call's league and of the team at the loop position; an update
\* changes at most the row with the matched id, which is a row of that league
\* and team and keeps its id, league and team.
WriteOfCall(p) ==
    LET c == calls[p]
        team == c.sortedTeams[c.idx]
    IN  /\ c.pc = "awaitWrite"
        /\ calls'[p].log # c.log
        /\ IF c.request.op = "create"
           THEN /\ Len(tblstandings') = Len(tblstandings) + 1
                /\ SubSeq(tblstandings', 1, Len(tblstandings)) = tblstandings
                /\ Last(tblstandings').leagueID = c.leagueID
                /\ Last(tblstandings').teamID = team.teamID
           ELSE /\ Len(tblstandings') = Len(tblstandings)
                /\ \A i \in DOMAIN tblstandings :
                       tblstandings'[i] # tblstandings[i]
                       => /\ tblstandings[i].id = c.request.id
                          /\ tblstandings[i].leagueID = c.leagueID
                          /\ tblstandings[i].teamID = team.teamID
                          /\ tblstandings'[i].id = tblstandings[i].id
                          /\ tblstandings'[i].leagueID = c.leagueID
                          /\ tblstandings'[i].teamID = team.teamID

\* A step of an engine call: its request log or its position changes.
EngineStep == \E p \in Procs : calls'[p].log # calls[p].log \/ calls'[p].pc # calls[p].pc

FrameStep ==
    /\ tblstandings' # tblstandings => \E p \in Procs : WriteOfCall(p)
    /\ EngineStep => UNCHANGED <<tblfixtures, tblresults, tblleagues>>

\* C30: a calculateLeagueStandings call for league L creates rows only with
\* leagueID L and updates only the row it matched on (L, team); the rows of
\* every other league and the fixtures, results and leagues tables are not
\* changed by any step of the call.
C30_Frame == [][FrameStep]_vars

\* Team 2 has a row in both leagues and the call for one league has just
\* updated its rows.
C30_Witness ==
    \E p \in Procs :
        LET c == calls[p]
        IN  /\ c.pc = "done"
            /\ c.ret = Ret(TRUE, UpdatedMessage)
            /\ \E k \in DOMAIN WriteLog(c) :
                   WriteLog(c)[k].op = "update" /\ WriteLog(c)[k].outcome = "ok"
            /\ \E i, j \in DOMAIN tblstandings :
                   /\ tblstandings[i].teamID = tblstandings[j].teamID
                   /\ tblstandings[i].leagueID = c.leagueID
                   /\ tblstandings[j].leagueID # c.leagueID

\* ---- the admin pages (SpecUI)
\* The result form's handler has ended with its success message.
SubmitSucceeded ==
    /\ ui.handler = "handleSubmit"
    /\ ui.pc = "ended"
    /\ ui.success # ""
    /\ ui.error = ""

\* The fixture the form was opened for.
EditedFixture == CHOOSE f \in DOMAIN tblfixtures : tblfixtures[f].id = ui.fixtureID

\* C22: after a previously Completed fixture with a Result was marked
\* Cancelled or Abandoned through the result form and the handler ended with
\* success, the tblstandings rows of the fixture's league for its two teams
\* count only the league's fixtures that are still Completed with a Result.
C22_CancelRemovesContribution ==
    (SubmitSucceeded /\ ui.status \in {Cancelled, Abandoned} /\ ui.wasCompleted)
    => \A i \in DOMAIN tblstandings :
           LET row == tblstandings[i]
               L == tblfixtures[EditedFixture].leagueID
           IN  (row.leagueID = L /\ Plays(EditedFixture, row.teamID))
               => row.played = Cardinality(MatchesOf(L, row.teamID))

\* What the engine returned to the handler, in order.
EngineReturns ==
    SelectSeq(ui.log, LAMBDA e : e.ev = "returned")

\* C23: when the handler has ended and a call of the engine returned
\* success:false to it, the page shows that return's message as the error
\* and no success message.
C23_EngineFailureShown ==
    ui.pc = "ended"
    => \A i \in DOMAIN EngineReturns :
           ~EngineReturns[i].arg.success
           => /\ ui.error = EngineReturns[i].arg.message
              /\ ui.success = ""

\* Positions of the handler's history with an event of kind ev.
EventsAt(ev) == {i \in DOMAIN ui.log : ui.log[i].ev = ev}

\* C26: in handleSubmit a call of updateStandingsForFixture is the third
\* event of the handler, after the result write and then the fixture status
\* update both returned 200, and the submitted status is Completed; the result
\* notifications start only after that call returned, and only in ResultsAdmin.
C26_SubmissionOrder ==
    ui.handler = "handleSubmit"
    => /\ \A i \in EventsAt("updateStandingsForFixture") :
              /\ i = 3
              /\ ui.log[1] = Event("resultWrite", "ok")
              /\ ui.log[2] = Event("fixtureUpdate", "ok")
              /\ ui.status = Completed
              /\ ui.log[i].arg = ui.fixtureID
       /\ \A i \in EventsAt("sendResultNotifications") :
              /\ i = 5
              /\ ui.log[3].ev = "updateStandingsForFixture"
              /\ ui.log[4].ev = "returned"
              /\ ui.component = "ResultsAdmin"
       /\ InFlight(calls[1])
              => /\ ui.pc = "awaitStandingsUpdate"
                 /\ EventsAt("updateStandingsForFixture") = {3}
                 /\ calls[1].entry = "updateStandingsForFixture"
                 /\ calls[1].fixtureID = ui.fixtureID

C26_Witness ==
    /\ ui.handler = "handleSubmit"
    /\ ui.component = "TeamAdmin"
    /\ ui.pc = "ended"
    /\ ui.operation = "create"
    /\ EventsAt("updateStandingsForFixture") = {3}
    /\ Len(ui.log) = 4

\* A return of the engine that recalculateAll counts as an updated league.
CountsAsUpdated(ret) == ret.success /\ ret.message # NotCurrentSeason

\* C27: recalculateAll calls calculateLeagueStandings for the leagues in list
\* order, each call after the return of the one before; the standings
\* notifications start only after the last league returned and only if some
\* league returned success with a message other than 'Not current season';
\* isProcessing is false when the handler has ended.
C27_BulkRecalculation ==
    ui.handler = "recalculateAll"
    => /\ \A i \in EventsAt("calculateLeagueStandings") :
              /\ i % 2 = 0
              /\ i \div 2 \in DOMAIN tblleagues
              /\ ui.log[i].arg = tblleagues[i \div 2].id
              /\ ui.log[i - 1] = IF i = 2 THEN Event("leaguesRead", "ok")
                                 ELSE Event("returned", ui.log[i - 1].arg)
              /\ \A j \in 1..(i - 1) : j % 2 = 0 => ui.log[j].ev = "calculateLeagueStandings"
       /\ \A i \in EventsAt("sendStandingsNotifications") :
              /\ i = 2 * Len(tblleagues) + 2
              /\ \A k \in DOMAIN tblleagues :
                     /\ ui.log[2 * k] = Event("calculateLeagueStandings", tblleagues[k].id)
                     /\ ui.log[2 * k + 1].ev = "returned"
              /\ \E j \in DOMAIN EngineReturns : CountsAsUpdated(EngineReturns[j].arg)
       /\ InFlight(calls[1])
              => /\ ui.pc = "awaitLeagueCalc"
                 /\ Len(ui.log) = 2 * ui.idx
                 /\ calls[1].leagueID = tblleagues[ui.idx].id
       /\ ui.pc = "ended" => ~ui.isProcessing

\* Both leagues were processed, one of them skipped or failed, and the
\* notifications were sent after the last return.
C27_Witness ==
    /\ ui.handler = "recalculateAll"
    /\ ui.pc = "ended"
    /\ ~ui.isProcessing
    /\ Len(EngineReturns) = Len(tblleagues)
    /\ \E j \in DOMAIN EngineReturns : ~CountsAsUpdated(EngineReturns[j].arg)
    /\ EventsAt("sendStandingsNotifications") = {2 * Len(tblleagues) + 2}

====
